---- MODULE Spec2Model ----
(***************************************************************************)
(* pols-webserver: the session manager (class PSession and the periodic    *)
(* sweep clearOldSessions, the older class Session that the dispatcher     *)
(* PWebServer.detectRoute instantiates) and the part of detectRoute that    *)
(* builds the session and attaches the hs cookie.                          *)
(*                                                                         *)
(* Node runs one JavaScript thread.  A step of this model is the code that *)
(* runs between two suspension points of an async function.  An `await` of *)
(* an already settled promise suspends the function until the microtask    *)
(* queue reaches it: only other queued continuations run in between, no    *)
(* timer and no new request (MicroPending).  An `await` of a custom store  *)
(* function waits for I/O: anything may run in between.                    *)
(***************************************************************************)
EXTENDS Integers, Sequences, FiniteSets, TLC

(* ------------------------------ bounds -------------------------------- *)
\* requests (and their session objects) of one run
MaxReqs == 2
\* identifiers crypto.randomUUID() can return
NumIds == 2
\* expiration windows the clock runs through in one run
MaxWindows == 1
\* segments of a request path that detectRoute is taken through
MaxRouteParts == 1
\* segments of a request path whose route is resolved
MaxParts == 3
\* segments of a request path that is rewritten, after the base path
MaxRawParts == 3
\* rewrite rules of a configuration
MaxRules == 2

(* ------------------------- program constants -------------------------- *)
\* sessions.minutesExpiration of the repository's server configuration
minutesExpiration == 15
\* Date.setMinutes counts minutes; Date values are milliseconds
MsPerMinute == 60000

Span == minutesExpiration * MsPerMinute
\* the instants at which the clock is read: the start of the run, and each
\* multiple of the expiration window after it and one millisecond later
Instants == {0} \cup {w * Span : w \in 1..MaxWindows}
                \cup {w * Span + 1 : w \in 1..MaxWindows}

Reqs == 1..MaxReqs
IDs == 1..NumIds
\* this._id before any identifier is known: undefined (PSession), '' (Session)
NoId == -1
\* a string that does not match the UUID pattern
NotUuid == 0

Keys == {"k"}
Vals == {"v"}
Null == "null"

StoreMethods == {"files", "memory", "custom"}
secretKey == "secret"
otherKey == "other"
Ip == "ip"

\* the user agent and host name of a request: those of the first request,
\* or one of the two changed
FirstAttrs == [userAgent |-> "ua1", hostname |-> "h1"]
ClientAttrs(r) ==
    IF r = 1 THEN {FirstAttrs}
    ELSE {FirstAttrs, [userAgent |-> "ua2", hostname |-> "h1"],
          [userAgent |-> "ua1", hostname |-> "h2"]}

(* ------------------------------ tokens -------------------------------- *)
\* jsonwebtoken.sign({id}, key): the payload and a signature over it
Sign(i, key) == [payload |-> i, sig |-> <<i, key>>]
\* jsonwebtoken.verify(token, key) succeeds when the signature is the one
\* computed from the token's payload with this key
VerifyOk(tok, key) == tok.sig = <<tok.payload, key>>
\* no hs cookie
NoToken == [payload |-> NoId, sig |-> <<>>]
\* a cookie value that is a bare string (what detectRoute sends: session.id)
Raw(i) == [payload |-> i, sig |-> <<>>]
\* the string the class Session takes as its identifier: params.hs ?? ''
RawId(tok) == IF tok.sig = <<>> THEN tok.payload ELSE NotUuid
\* the UUID pattern of start()
IsUuid(x) == x \in IDs

\* the hs values a client of PSession presents
PTokens ==
    {NoToken} \cup {Sign(i, secretKey) : i \in IDs}
      \cup {Sign(1, otherKey), [payload |-> 1, sig |-> <<2, secretKey>>],
            Sign(NotUuid, secretKey)}
\* the hs values a client of the dispatcher presents
RawTokens == {NoToken, Raw(NotUuid)} \cup {Raw(i) : i \in IDs}

(* ------------------------------ bodies -------------------------------- *)
EmptyData == [k \in Keys |-> Null]
NoBody == [kind |-> "none"]
\* newBody of start()
NewBody(attrs, n) ==
    [ip |-> Ip, lastCheck |-> n, userAgent |-> attrs.userAgent,
     hostname |-> attrs.hostname, data |-> EmptyData]

\* a stored document: a file of the store directory or a record of the custom store
Absent == [kind |-> "absent"]
Corrupt == [kind |-> "corrupt"]
Stringify(b) == [kind |-> "json", body |-> b]
Parses(c) == c.kind = "json"
Parse(c) == c.body

(* --------------------------- the route tree --------------------------- *)
\* the segments of a request path: pathUrl.split('/')
Segs == {"admin", "users", "7", "%207", "%", ""}
\* pathParts[i] beyond the array (and the text JavaScript makes of it in
\* '$' + part)
Undefined == "undefined"
\* request.method
Methods == {"get", "post"}
\* request.ip
Ips == {"ip1", "ip2"}

\* path.join drops empty segments
Norm(p) == SelectSeq(p, LAMBDA x : x # "")

\* what lies below config.paths.routes: the directories, the files whose name
\* is the bare segment, and the units <path>.js and <path>.ts
Tree1 ==
    [dirs |-> {<<"admin">>}, plain |-> {},
     js |-> {<<"admin", "users">>, <<"index">>}, ts |-> {}]
Tree2 ==
    [dirs |-> {<<"admin">>, <<"admin", "users">>}, plain |-> {<<"7">>},
     js |-> {<<"admin", "users">>, <<"users">>},
     ts |-> {<<"users">>, <<"admin", "index">>, <<"admin", "users", "index">>}]
Tree3 ==
    [dirs |-> {<<"index">>}, plain |-> {}, js |-> {}, ts |-> {<<"index", "7">>}]
Tree4 ==
    [dirs |-> {<<"index">>, <<"index", "index">>}, plain |-> {<<"users">>},
     js |-> {<<"index", "index", "index">>}, ts |-> {}]
Trees == {Tree1, Tree2, Tree3, Tree4}

\* fs.existsSync(path.join(config.paths.routes, ...p))
ExistsSync(t, p) == Norm(p) \in t.dirs \cup t.plain \cup {<<>>}
\* statsInfo.isDirectory: the method is named, not called, so the condition
\* reads a function object and holds for whatever exists
IsDirectory(t, p) == TRUE

\* an extension order that takes the .ts unit first
ExtTsFirst(t, p) ==
    IF Norm(p) \in t.ts THEN ".ts" ELSE IF Norm(p) \in t.js THEN ".js" ELSE ""

\* ext: '.js' if <pathToRoute>.js exists, else '.ts' if <pathToRoute>.ts exists
Ext(t, p) ==
    IF Norm(p) \in t.js THEN ".js" ELSE IF Norm(p) \in t.ts THEN ".ts" ELSE ""

\* pathParts[i], i counted from 0 as in the code
PartAt(parts, i) == IF i + 1 \in DOMAIN parts THEN parts[i + 1] ELSE Undefined

\* a retry that leaves the cursor where it is
RetryCursorStays(i) == i

\* `i--` of the index retry
RetryCursor(i) == i - 1

\* the locals of the walk before its first pass: arr is pathToRouteArray
\* without its first element, i and part the loop's variables; probes lists the
\* locations handed to fs.existsSync, retries the depths at which index was
\* substituted, taken the indexes of the segments pushed so far, sub whether
\* part is a substituted index
WalkStart(parts) ==
    [kind |-> "walking", arr |-> <<>>, i |-> 0, part |-> PartAt(parts, 0),
     ext |-> "", probes |-> <<>>, retries |-> <<>>, taken |-> {}, sub |-> FALSE]

\* one pass of `while (!routeObject)`, up to the load of the unit
WalkIter(t, parts, w) ==
    IF w.part = Undefined
    THEN \* path.join(..., undefined) throws a TypeError
         [w EXCEPT !.kind = "throws"]
    ELSE LET loc == w.arr \o <<w.part>>
             v == [w EXCEPT !.probes = Append(@, loc)]
             took == IF w.sub THEN w.taken ELSE w.taken \cup {w.i}
         IN IF ExistsSync(t, loc)
            THEN IF IsDirectory(t, loc)
                 THEN [v EXCEPT !.arr = loc, !.i = w.i + 1, !.taken = took,
                                !.part = IF PartAt(parts, w.i + 1) = Undefined
                                         THEN "index" ELSE PartAt(parts, w.i + 1),
                                !.sub = PartAt(parts, w.i + 1) = Undefined]
                 ELSE [v EXCEPT !.kind = "notFound"]
            ELSE IF Ext(t, loc) # ""
            THEN [v EXCEPT !.kind = "leaf", !.i = w.i + 1, !.taken = took,
                           !.ext = Ext(t, loc)]
            ELSE IF w.part # "index"
            THEN [v EXCEPT !.i = RetryCursor(w.i), !.part = "index", !.sub = TRUE,
                           !.retries = Append(@, Len(w.arr))]
            ELSE [v EXCEPT !.kind = "notFound"]

\* `while (!routeObject)` up to the unit it stops at
RECURSIVE Walk(_, _, _)
Walk(t, parts, w) ==
    IF w.kind # "walking" THEN w ELSE Walk(t, parts, WalkIter(t, parts, w))

\* the walk of detectRoute from its start
RouteWalk(t, parts) == Walk(t, parts, WalkStart(parts))

(* --------------------------- the route unit ---------------------------- *)
\* the name of a member: request.method + '$' + part, '$' + part
Member(prefix, part) == <<prefix, part>>
IndexMember == Member("", "index")

\* classes a route file exports: members by name, each an async function, a
\* plain function or a value that is no function; whiteList and blackList
RouteClasses ==
    { [members |-> {[name |-> IndexMember, kind |-> "async"]},
       whiteList |-> {}, blackList |-> {}],
      [members |-> {[name |-> Member("get", "7"), kind |-> "async"],
                    [name |-> Member("", "7"), kind |-> "async"],
                    [name |-> IndexMember, kind |-> "async"]},
       whiteList |-> {"ip1"}, blackList |-> {}],
      [members |-> {[name |-> Member("", "7"), kind |-> "sync"],
                    [name |-> IndexMember, kind |-> "async"]},
       whiteList |-> {}, blackList |-> {"ip1"}],
      [members |-> {[name |-> Member("get", "7"), kind |-> "value"],
                    [name |-> IndexMember, kind |-> "sync"]},
       whiteList |-> {}, blackList |-> {}],
      [members |-> {[name |-> Member("", "7"), kind |-> "value"]},
       whiteList |-> {}, blackList |-> {"ip1"}] }
NoRoute == [members |-> {}, whiteList |-> {}, blackList |-> {}]

\* typeof routeObject[name]
TypeOf(u, name) ==
    IF \E m \in u.members : m.name = name /\ m.kind \in {"async", "sync"}
    THEN "function"
    ELSE IF \E m \in u.members : m.name = name THEN "object"
    ELSE Undefined
\* toExecute.constructor.name
ConstructorName(u, name) ==
    IF \E m \in u.members : m.name = name /\ m.kind = "async"
    THEN "AsyncFunction"
    ELSE IF \E m \in u.members : m.name = name /\ m.kind = "sync"
    THEN "Function" ELSE "Object"

NoName == <<>>
\* a resolution that tries '$' + part before request.method + '$' + part
FunctionNameBareFirst(u, method, part) ==
    IF TypeOf(u, Member("", part)) = "function"
    THEN [name |-> Member("", part), consumed |-> 1]
    ELSE IF TypeOf(u, Member(method, part)) = "function"
    THEN [name |-> Member(method, part), consumed |-> 1]
    ELSE IF TypeOf(u, IndexMember) = "function"
    THEN [name |-> IndexMember, consumed |-> 0]
    ELSE [name |-> NoName, consumed |-> 0]

\* `while (!functionName)`: the member to call and how many segments it takes
FunctionName(u, method, part) ==
    IF TypeOf(u, Member(method, part)) = "function"
    THEN [name |-> Member(method, part), consumed |-> 1]
    ELSE IF TypeOf(u, Member("", part)) = "function"
    THEN [name |-> Member("", part), consumed |-> 1]
    ELSE IF TypeOf(u, IndexMember) = "function"
    THEN [name |-> IndexMember, consumed |-> 0]
    ELSE [name |-> NoName, consumed |-> 0]

\* decodeURIComponent throws a URIError on a malformed escape
Malformed(seg) == seg = "%"
\* decodeURIComponent(part)
DecodeURIComponent(seg) == IF seg = "%207" THEN " 7" ELSE seg
\* String.prototype.trim
Trim(x) == IF x = " 7" THEN "7" ELSE x

\* the segments from index i on (i counted from 0)
Rest(parts, i) == SubSeq(parts, i + 1, Len(parts))
\* `while (i < pathParts.length) parameters.push(decodeURIComponent(part).trim())`
Parameters(parts, i) ==
    [k \in 1..Len(Rest(parts, i)) |-> Trim(DecodeURIComponent(Rest(parts, i)[k]))]

(* ------------------------ envelopes and frames ------------------------ *)
\* the errors a hook, an import or a handler throws
Errs == {"e1", "e2"}
NoDetail == "none"

\* new WebServerResponse({body, status}): text names the fixed part of the
\* body, detail the error message and stack it carries
\* no location header
NoLocation == [protocol |-> "", hostname |-> "", port |-> 0, path |-> <<>>, query |-> ""]
Envelope(status, text, detail) ==
    [status |-> status, body |-> [text |-> text, detail |-> detail],
     redirect |-> FALSE, location |-> NoLocation, cookies |-> <<>>]
\* `https://${request.hostname}:${httpsWebServerPort}/${request.pathUrl}${request.queryUrl}`
RedirectUrl(hostname, port, pathUrl, queryUrl) ==
    [protocol |-> "https", hostname |-> hostname, port |-> port,
     path |-> pathUrl, query |-> queryUrl]
\* new WebServerResponse({redirect}): status 302, headers.location
RedirectEnvelope(url) ==
    [status |-> 302, body |-> [text |-> "", detail |-> NoDetail],
     redirect |-> TRUE, location |-> url, cookies |-> <<>>]
NoResponse ==
    [status |-> 0, body |-> [text |-> "", detail |-> NoDetail],
     redirect |-> FALSE, location |-> NoLocation, cookies |-> <<>>]
\* an envelope a hook answers with, and one a handler returns
HookEnvelope == Envelope(403, "hook", NoDetail)
HandlerEnvelope == Envelope(201, "handler", NoDetail)

\* config.showErrorsOnClient ? description + err.message + err.stack
\*                           : 'Error en el servidor'
ErrorBody(flag, description, e) ==
    IF flag THEN [text |-> description, detail |-> e]
    ELSE [text |-> "Error en el servidor", detail |-> NoDetail]

(* -------------------------- the request path -------------------------- *)
\* a path as the list of its segments, pathUrl.split('/'); the empty string
\* has the one segment ''
Empty == <<"">>
\* the segments of request.pathUrl: names of which none is part of another
RawSegs == {"admin", "users", "..", ""}
\* config.baseUrl
BaseUrls == {Undefined, "base"}
\* config.remap: rules {from, to} whose pattern is the name of a segment
Rules == [from : {"admin", "users"}, to : {"users", "7"}]
RuleLists == UNION {[1..k -> Rules] : k \in 0..MaxRules}
\* config.defaultRoute; <<>> when there is none
DefaultRoutes == {<<>>, <<"users">>, <<"admin", "users">>}
\* config.public: its urlPath and the files that path.join reaches from its
\* path, each by its location relative to that path: a location that begins
\* with '..' lies outside the directory
NoPublic == [on |-> FALSE, urlPath |-> Undefined, files |-> {}]
Publics ==
    {NoPublic,
     [on |-> TRUE, urlPath |-> Undefined, files |-> {<<"users">>, <<"..", "users">>}],
     [on |-> TRUE, urlPath |-> "admin", files |-> {<<"users">>, <<"..", "users">>}]}

\* pathUrl.replace(new RegExp('^' + baseUrl + '(\/|$)'), '')
StripBase(base, path) ==
    IF base = Undefined \/ path[1] # base THEN path
    ELSE IF Len(path) = 1 THEN Empty ELSE Tail(path)

\* String.prototype.replace(from, to): the first occurrence only
Replace(path, from, to) ==
    IF \E k \in DOMAIN path : path[k] = from
    THEN LET k == CHOOSE j \in DOMAIN path :
                    path[j] = from /\ \A h \in 1..(j - 1) : path[h] # from
         IN [path EXCEPT ![k] = to]
    ELSE path

\* `for (const r of config.remap)`: the first rule whose result differs from
\* the path is taken, and the loop breaks
RECURSIVE Remap(_, _)
Remap(rules, path) ==
    IF rules = <<>> THEN path
    ELSE LET result == Replace(path, Head(rules).from, Head(rules).to)
         IN IF path # result THEN result ELSE Remap(Tail(rules), path)

\* requestPathUrl: the base path stripped, then the rules
RequestPathUrl(cfg, raw) ==
    LET stripped == StripBase(cfg.baseUrl, raw)
    IN IF stripped # Empty THEN Remap(cfg.remap, stripped) ELSE stripped

\* const pathUrl = requestPathUrl || (config.defaultRoute ?? '')
PathUrl(cfg, raw) ==
    IF RequestPathUrl(cfg, raw) # Empty THEN RequestPathUrl(cfg, raw)
    ELSE IF cfg.defaultRoute = <<>> THEN Empty ELSE cfg.defaultRoute

\* path.join: empty and '.' segments dropped, '..' takes the segment before it
\* away or, with none before it, stays and leads out of the directory
RECURSIVE Join(_, _)
Join(acc, path) ==
    IF path = <<>> THEN acc
    ELSE LET x == Head(path) IN
         IF x \in {"", "."} THEN Join(acc, Tail(path))
         ELSE IF x = ".." /\ acc # <<>> /\ acc[Len(acc)] # ".."
         THEN Join(SubSeq(acc, 1, Len(acc) - 1), Tail(path))
         ELSE Join(Append(acc, x), Tail(path))

\* request.pathUrl.match(new RegExp('^' + config.public.urlPath))
MatchesUrlPath(cfg, raw) ==
    cfg.public.urlPath # Undefined /\ raw[1] = cfg.public.urlPath

\* path.join(config.public.path, pathUrlCopy), relative to config.public.path
PublicFilePath(cfg, raw, pathUrl) ==
    Join(<<>>, IF MatchesUrlPath(cfg, raw) THEN <<"">> \o Tail(raw) ELSE pathUrl)

\* if (config.public) ... PUtils.Files.existsFile(publicFilePath)
PublicFileExists(cfg, raw, pathUrl) ==
    cfg.public.on /\ PublicFilePath(cfg, raw, pathUrl) \in cfg.public.files

\* pathUrl.split('/').filter(part => !['.', '..'].includes(part))
PathParts(pathUrl) == SelectSeq(pathUrl, LAMBDA x : x \notin {".", ".."})

\* the configurations of the server
\* config.instances.https: none, or one with its port; port 0 lets the
\* system choose the port the listener binds
NoHttps == [on |-> FALSE, port |-> 0]
HttpsInstances == {NoHttps} \cup [on : {TRUE}, port : {0, 443}]
\* config.instances.https?.port, 0 for undefined
HttpsWebServerPort(cfg) == IF cfg.https.on THEN cfg.https.port ELSE 0

\* request.queryUrl: the query of the request as PUtilsObject.toUrlParameters
\* writes it
QueryUrls == {"", "?a=1"}

Configs ==
    [showErrorsOnClient : BOOLEAN, https : HttpsInstances,
     sameSiteCookie : {"lax", Undefined}, tree : Trees,
     baseUrl : {Undefined}, remap : {<<>>}, defaultRoute : {<<>>},
     public : {NoPublic}]
DefaultConfig ==
    [showErrorsOnClient |-> FALSE, https |-> NoHttps,
     sameSiteCookie |-> Undefined, tree |-> Tree1,
     baseUrl |-> Undefined, remap |-> <<>>, defaultRoute |-> <<>>,
     public |-> NoPublic]
\* the configurations of the path: base path, rules, default route, public
PathConfigs ==
    {[DefaultConfig EXCEPT !.tree = t, !.baseUrl = b, !.remap = m,
                           !.defaultRoute = d, !.public = u] :
       t \in {Tree1, Tree2}, b \in BaseUrls, m \in RuleLists,
       d \in DefaultRoutes, u \in Publics}
\* the paths of the requests that the middleware of the base path lets through
RawPaths(cfg) ==
    LET rel == UNION {[1..k -> RawSegs] : k \in 1..MaxRawParts}
    IN IF cfg.baseUrl = Undefined THEN rel
       ELSE {<<cfg.baseUrl>>} \cup {<<cfg.baseUrl>> \o q : q \in rel}

NoWalk ==
    [kind |-> "none", arr |-> <<>>, i |-> 0, part |-> "", ext |-> "",
     probes |-> <<>>, retries |-> <<>>, taken |-> {}, sub |-> FALSE]
NoCalls ==
    [requestReceived |-> 0, notFound |-> 0, beforeExecute |-> 0, toExecute |-> 0,
     finally |-> 0]
\* no hook has settled
NoHook == [phase |-> "", out |-> "none"]
\* notFound() has not been called
NoNotFound == [type |-> "none", told |-> "none"]
NoThrow == <<>>

\* no detectRoute call in progress
DrIdle ==
    [pc |-> "idle", r |-> 0, protocol |-> "", method |-> "", ip |-> "",
     pathUrl |-> <<>>, queryUrl |-> "", parts |-> <<>>, publicFile |-> FALSE,
     walk |-> NoWalk, hook |-> NoHook, notFound |-> NoNotFound,
     routeObject |-> NoRoute,
     functionName |-> NoName, i |-> 0, parameters |-> <<>>,
     result |-> NoResponse, response |-> NoResponse,
     calls |-> NoCalls, thrown |-> NoThrow]

(* ---------------------------- the constructor -------------------------- *)
\* an optional string of the configuration: absent, or its characters
Missing == [def |-> FALSE, s |-> <<>>]
Given(s) == [def |-> TRUE, s |-> s]

\* String.prototype.trim
RECURSIVE TrimChars(_)
TrimChars(s) ==
    IF s = <<>> THEN s
    ELSE IF Head(s) = " " THEN TrimChars(Tail(s))
    ELSE IF s[Len(s)] = " " THEN TrimChars(SubSeq(s, 1, Len(s) - 1))
    ELSE s

\* the test of defaultRoute that looks at the slash only
StartsWithSlash(s) == s # <<>> /\ s[1] = "/"
\* s.match(/^(\/|\\)/)
StartsWithSep(s) == s # <<>> /\ s[1] \in {"/", "\\"}
\* s.match(/^\//)
StartsWithSlashOnly(s) == s # <<>> /\ s[1] = "/"

\* the values of config.public
PublicParams ==
    {[on |-> FALSE, path |-> Missing, urlPath |-> Missing]}
    \cup [on : {TRUE}, path : {Given(<<>>), Given(<<"p">>)},
          urlPath : {Missing, Given(<<"a">>), Given(<<"/", "a">>)}]

\* the configurations the constructor is given
Params ==
    [http : BOOLEAN, https : BOOLEAN,
     defaultRoute : {Missing, Given(<<>>), Given(<<"h">>), Given(<<"/", "h">>),
                     Given(<<"\\", "h">>)},
     logs : {Missing, Given(<<" ">>), Given(<<"l">>)},
     routes : {Given(<<>>), Given(<<"r">>)},
     uploads : {Given(<<>>), Given(<<"u">>)},
     storeMethod : {"files", "memory"},
     path : {Missing, Given(<<"s">>)},
     minutesExpiration : {-1, 0, 15},
     public : PublicParams]

\* the configuration of the repository's test scripts
TestParams ==
    [http |-> TRUE, https |-> FALSE, defaultRoute |-> Missing, logs |-> Missing,
     routes |-> Given(<<"r">>), uploads |-> Given(<<"u">>),
     storeMethod |-> "files", path |-> Given(<<"s">>), minutesExpiration |-> 15,
     public |-> [on |-> FALSE, path |-> Missing, urlPath |-> Missing]]

\* what the checks of the constructor throw for the configuration p, in the
\* order the constructor makes them: "none" if they all pass
Validate(p) ==
    IF ~p.http /\ ~p.https THEN "Error"
    ELSE IF p.defaultRoute.def /\ p.defaultRoute.s # <<>>
            /\ StartsWithSep(p.defaultRoute.s) THEN "Error"
    ELSE IF ~p.logs.def THEN "TypeError"
    ELSE IF TrimChars(p.logs.s) = <<>> THEN "Error"
    ELSE IF TrimChars(p.routes.s) = <<>> THEN "Error"
    ELSE IF TrimChars(p.uploads.s) = <<>> THEN "Error"
    ELSE IF p.storeMethod = "files" /\ (~p.path.def \/ p.path.s = <<>>) THEN "Error"
    ELSE IF p.minutesExpiration < 0 THEN "Error"
    ELSE IF p.public.on /\ TrimChars(p.public.path.s) = <<>> THEN "Error"
    ELSE IF p.public.on /\ ~p.public.urlPath.def THEN "TypeError"
    ELSE IF p.public.on /\ StartsWithSlashOnly(p.public.urlPath.s) THEN "Error"
    ELSE "none"

\* the PWebServer object before its constructor has run
Unbuilt ==
    [state |-> "new", thrown |-> "none", app |-> FALSE,
     middleware |-> FALSE, servers |-> {}, listening |-> {}, interval |-> FALSE]

\* a server that was constructed and started, and listens
Serving ==
    [state |-> "started", thrown |-> "none", app |-> TRUE, middleware |-> TRUE, servers |-> {"http"},
     listening |-> {"http"}, interval |-> TRUE]

VARIABLES
    storeMethod,  \* config.sessions.storeMethod / PSessionParams.storeMethod
    sessions,     \* the memory collection: identifier -> owner of the body object, 0 = no entry
    bodies,       \* the store directory or the custom store: identifier -> document
    clock,        \* the time the clock showed when it was last read, ms
    pc,           \* where each request is
    cls,          \* the class of the request's session object
    prm,          \* this.hostname, this.userAgent
    id,           \* this._id
    ref,          \* this.body: the owner of the body object it refers to, 0 = undefined
    obj,          \* the body objects, by the request that created them
    enc,          \* this._encriptedId
    now,          \* start()'s now, 0 outside start()
    ctx,          \* which await of generateID() the request is in, if any;
                  \* "retry" from the pass of the loop that looks up the
                  \* identifier checkValidBody generated until its saveBody
    sid,          \* the identifier passed to the pending saveBody
    dg,           \* the generateID() call that start() did not await
    pre,          \* the identifiers the backend held when start() was called;
                  \* once start() has settled the identifier it saves under,
                  \* only whether the presented identifier was among them
    answered,     \* the requests that had their response when the request came
    lastSweep,    \* the expirationTime of the last sweep, <<>> before the first
    config,       \* PWebServer.config, as far as detectRoute reads it; the
                  \* configuration given to the constructor, as far as it
                  \* reads it, while the server is constructed
    dr,           \* the frame of the detectRoute call in progress: its locals,
                  \* where it is, and which hooks it has called
    server        \* the PWebServer object: what its constructor has
                  \* created, and whether it listens

vars == <<storeMethod, sessions, bodies, clock, pc, cls, prm, id, ref,
          obj, enc, now, ctx, sid, dg, pre, answered, lastSweep, config, dr,
          server>>

storeVars == <<sessions, bodies>>
startVars == <<now, ctx, sid, dg, pre>>
routeVars == <<config, dr, server>>

\* continuations waiting in the microtask queue
MicroPcs == {"p_top", "p_cont", "p_valid"}
MicroPending == \E r \in Reqs : pc[r] \in MicroPcs

(* ------------------------------ the store ----------------------------- *)
\* PUtils.Files.existsFile(<id>.json), this.sessions[id]
Stored(i) ==
    /\ i \in IDs
    /\ IF storeMethod = "memory" THEN sessions[i] # 0 ELSE bodies[i] # Absent
Unused == {i \in IDs : ~Stored(i)}
StoredIds == {i \in IDs : Stored(i)}

\* this.body
Body(r) == IF ref[r] = 0 THEN NoBody ELSE obj[ref[r]]

\* the body the backend holds under identifier i
StoredBody(i) ==
    IF ~Stored(i) THEN NoBody
    ELSE IF storeMethod = "memory" THEN obj[sessions[i]]
    ELSE IF Parses(bodies[i]) THEN Parse(bodies[i]) ELSE NoBody

InitSession ==
    /\ storeMethod \in StoreMethods
    /\ sessions = [i \in IDs |-> 0]
    /\ bodies \in [IDs -> {Absent, Corrupt}]
    /\ (storeMethod # "files" => bodies = [i \in IDs |-> Absent])
    /\ (storeMethod = "files" => \A i \in IDs : i > 1 => bodies[i] = Absent)
    /\ clock = 0
    /\ pc = [r \in Reqs |-> "idle"]
    /\ cls = [r \in Reqs |-> "none"]
    /\ prm = [r \in Reqs |-> FirstAttrs]
    /\ id = [r \in Reqs |-> NoId]
    /\ ref = [r \in Reqs |-> 0]
    /\ obj = [r \in Reqs |-> NoBody]
    /\ enc = [r \in Reqs |-> NoToken]
    /\ now = [r \in Reqs |-> 0]
    /\ ctx = [r \in Reqs |-> "none"]
    /\ sid = [r \in Reqs |-> NoId]
    /\ dg = [r \in Reqs |-> "off"]
    /\ pre = [r \in Reqs |-> {}]
    /\ answered = [r \in Reqs |-> {}]
    /\ lastSweep = <<>>

\* the session manager with a server that has received no request
Init ==
    /\ InitSession
    /\ server = Serving
    /\ config = DefaultConfig
    /\ dr = DrIdle

\* new Date: the clock shows the time it last showed, or a later one
NewDate == {t \in Instants : t >= clock}
ReadClock(t) ==
    /\ t \in NewDate
    /\ clock' = t

(* --------------------------- pure decisions --------------------------- *)
\* a comparison that also rejects a body exactly at the threshold
ExpiredAtThreshold(b, e) == b.lastCheck <= e

\* new Date(body.lastCheck) < expirationTime
Expired(b, e) == b.lastCheck < e

\* checkValidBody's condition: the body is kept
CheckValidBody(b, attrs, e) ==
    /\ b # NoBody
    /\ ~Expired(b, e)
    /\ b.userAgent = attrs.userAgent
    /\ b.hostname = attrs.hostname

\* expirationTime.setMinutes(expirationTime.getMinutes() - minutesExpiration)
ExpirationTime(t) == t - Span

\* get(name): this.body?.data[name] ?? null
Get(r, k) == IF ref[r] = 0 THEN Null ELSE Body(r).data[k]

\* a set() that leaves only the key it is given in the data
SetDataAlone(b, k, v) == [b EXCEPT !.data = [x \in DOMAIN b.data |-> IF x = k THEN v ELSE Null]]
\* this.body.data[name] = value
SetData(b, k, v) == [b EXCEPT !.data[k] = v]
\* set(name, value): if (this.body?.data) this.body.data[name] = value
SetCall(r, k, v) ==
    IF ref[r] = 0 THEN UNCHANGED obj
    ELSE obj' = [obj EXCEPT ![ref[r]] = SetData(@, k, v)]

(* --------------------------- store writes ----------------------------- *)
\* save(): the body b, held in the object of `owner`, goes under identifier i
WriteBody(i, owner, b) ==
    IF storeMethod = "memory"
    THEN sessions' = [sessions EXCEPT ![i] = owner] /\ UNCHANGED bodies
    ELSE bodies' = [bodies EXCEPT ![i] = Stringify(b)] /\ UNCHANGED sessions

\* this.body = newBody; this.save() under identifier i
Fresh(r, i, nb) ==
    /\ id' = [id EXCEPT ![r] = i]
    /\ obj' = [obj EXCEPT ![r] = nb]
    /\ ref' = [ref EXCEPT ![r] = r]
    /\ WriteBody(i, r, nb)

\* fs.unlinkSync(<old>.json); this.body = newBody; this.save() under identifier i
FreshAfterUnlink(r, old, i, nb) ==
    /\ id' = [id EXCEPT ![r] = i]
    /\ obj' = [obj EXCEPT ![r] = nb]
    /\ ref' = [ref EXCEPT ![r] = r]
    /\ bodies' = [bodies EXCEPT ![old] = Absent, ![i] = Stringify(nb)]
    /\ UNCHANGED sessions

\* a load that leaves lastCheck as it was stored
RefreshKeepsLastCheck(r, i, n) ==
    /\ id' = [id EXCEPT ![r] = i]
    /\ IF storeMethod = "memory"
       THEN /\ obj' = obj
            /\ ref' = [ref EXCEPT ![r] = sessions[i]]
       ELSE /\ obj' = [obj EXCEPT ![r] = StoredBody(i)]
            /\ ref' = [ref EXCEPT ![r] = r]

\* the loaded body is valid: this.body.lastCheck = now.  The memory backend
\* hands out the stored object itself, the others a copy
Refresh(r, i, n) ==
    /\ id' = [id EXCEPT ![r] = i]
    /\ IF storeMethod = "memory"
       THEN /\ obj' = [obj EXCEPT ![sessions[i]].lastCheck = n]
            /\ ref' = [ref EXCEPT ![r] = sessions[i]]
       ELSE /\ obj' = [obj EXCEPT ![r] = [StoredBody(i) EXCEPT !.lastCheck = n]]
            /\ ref' = [ref EXCEPT ![r] = r]

(* ------------------- the dispatcher and the handler ------------------- *)
\* detectRoute: new Session({hs: request.cookies?.hs, ...})
SessionNew(r, hs, a) ==
    /\ prm' = [prm EXCEPT ![r] = a]
    /\ id' = [id EXCEPT ![r] = RawId(hs)]
    /\ cls' = [cls EXCEPT ![r] = "Session"]
    /\ pc' = [pc EXCEPT ![r] = "new"]
    /\ answered' = [answered EXCEPT ![r] = {q \in Reqs : pc[q] = "done"}]
    /\ UNCHANGED <<storeMethod, lastSweep, storeVars, clock, ref, obj, enc, startVars>>

\* detectRoute up to the session it builds; what the handler does with the
\* session follows as steps of its own
DetectRouteBegin(r) ==
    /\ pc[r] = "idle"
    /\ \A q \in Reqs : q < r => pc[q] # "idle"
    /\ ~MicroPending
    /\ storeMethod \in {"files", "memory"}
    /\ \E hs \in RawTokens, a \in ClientAttrs(r) : SessionNew(r, hs, a)
    /\ UNCHANGED routeVars

\* the hs cookie of the response: {name: 'hs', value: session.id, ...}
Cookie(r) == IF pc[r] = "done" THEN Raw(id[r]) ELSE NoToken

\* detectRoute: response.cookies.push({name: 'hs', value: session.id, ...})
DetectRouteEnd(r) ==
    /\ cls[r] = "Session"
    /\ pc[r] \in {"new", "ready"}
    /\ pc' = [pc EXCEPT ![r] = "done"]
    /\ UNCHANGED <<storeMethod, lastSweep, answered, storeVars, clock, cls, prm, id, ref, obj,
                   enc, startVars>>
    /\ UNCHANGED routeVars

\* new PSession(params)
PSessionNew(r) ==
    /\ pc[r] = "idle"
    /\ \A q \in Reqs : q < r => pc[q] # "idle"
    /\ ~MicroPending
    /\ \E hs \in PTokens, a \in ClientAttrs(r) :
         /\ prm' = [prm EXCEPT ![r] = a]
         /\ enc' = [enc EXCEPT ![r] = hs]
    /\ cls' = [cls EXCEPT ![r] = "PSession"]
    /\ pc' = [pc EXCEPT ![r] = "new"]
    /\ UNCHANGED <<storeMethod, lastSweep, answered, storeVars, clock, id, ref, obj, startVars>>
    /\ UNCHANGED routeVars

\* set(name, value): if (this.body?.data) this.body.data[name] = value
Set(r) ==
    /\ pc[r] \in {"new", "ready"}
    /\ \E k \in Keys, v \in Vals : SetCall(r, k, v)
    /\ UNCHANGED <<storeMethod, lastSweep, answered, storeVars, clock, pc, cls, prm, id, ref,
                   enc, startVars>>
    /\ UNCHANGED routeVars

\* save(), called by the handler on a started session
Save(r) ==
    /\ pc[r] = "ready"
    /\ WriteBody(id[r], ref[r], Body(r))
    /\ UNCHANGED <<storeMethod, lastSweep, answered, clock, pc, cls, prm, id, ref, obj, enc,
                   startVars>>
    /\ UNCHANGED routeVars

\* destroy(), called by the handler on a started session
Destroy(r) ==
    /\ pc[r] = "ready"
    /\ IF storeMethod = "memory"
       THEN sessions' = [sessions EXCEPT ![id[r]] = 0] /\ UNCHANGED bodies
       ELSE bodies' = [bodies EXCEPT ![id[r]] = Absent] /\ UNCHANGED sessions
    /\ UNCHANGED <<storeMethod, lastSweep, answered, clock, pc, cls, prm, id, ref, obj, enc,
                   startVars>>
    /\ UNCHANGED routeVars

(* --------------------------- Session.start ---------------------------- *)
\* Session.start(), files and memory backends: it has no await on these, so
\* it runs in one piece
SessionStart(r) ==
    /\ pc[r] = "new"
    /\ cls[r] = "Session"
    /\ \E n \in NewDate :
       LET e == ExpirationTime(n)
           nb == NewBody(prm[r], n)
       IN /\ ReadClock(n)
          /\ \E i1 \in IDs :
               \* an empty or non-UUID identifier with no entry is replaced
               /\ IF ~IsUuid(id[r]) /\ ~Stored(id[r]) THEN i1 \in Unused ELSE i1 = id[r]
               /\ IF Stored(i1)
                  THEN IF storeMethod = "files" /\ ~Parses(bodies[i1])
                       THEN FreshAfterUnlink(r, i1, i1, nb)
                       ELSE IF CheckValidBody(StoredBody(i1), prm[r], e)
                            THEN /\ Refresh(r, i1, n)
                                 /\ WriteBody(i1, sessions[i1],
                                              [StoredBody(i1) EXCEPT !.lastCheck = n])
                            ELSE \E i2 \in Unused : Fresh(r, i2, nb)
                  ELSE Fresh(r, i1, nb)
    /\ pc' = [pc EXCEPT ![r] = "ready"]
    /\ UNCHANGED <<storeMethod, lastSweep, answered, cls, prm, enc, startVars>>
    /\ UNCHANGED routeVars

(* --------------------------- PSession.start --------------------------- *)
\* the presented token verifies and carries a UUID-shaped identifier
TokenAccepted(tok) ==
    /\ tok # NoToken
    /\ VerifyOk(tok, secretKey)
    /\ IsUuid(tok.payload)

\* of the identifiers p, the one the presented token carries
Presented(r, p) == p \cap {enc[r].payload}

\* which generateID() call of the token check a rejected token leads to
TokenCtx(tok) ==
    IF tok = NoToken THEN "notoken"
    ELSE IF VerifyOk(tok, secretKey) THEN "else" ELSE "catch"

\* the identifier the not-found branch gives the fresh body: PSession calls
\* generateID(), which on the files and memory backends returns an unused one
FreshIds(i) == Unused

\* one pass of `while (!this.body)` for identifier i, up to its next await;
\* n is start()'s now, p the identifiers held when start() was called
LoopIter(r, i, n, p) ==
    /\ IF storeMethod = "custom"
       THEN \* this.body = await this.storeMethod.getBody(this._id)
            /\ id' = [id EXCEPT ![r] = i]
            /\ pc' = [pc EXCEPT ![r] = "c_get"]
            /\ UNCHANGED <<storeVars, ref, obj, enc>>
       ELSE IF ~Stored(i)
       THEN \* generateID(); body = newBody; save(); sign
            \E j \in FreshIds(i) :
               /\ Fresh(r, j, NewBody(prm[r], n))
               /\ enc' = [enc EXCEPT ![r] = Sign(j, secretKey)]
               /\ pc' = [pc EXCEPT ![r] = "ready"]
       ELSE IF storeMethod = "files" /\ ~Parses(bodies[i])
       THEN \* catch: unlinkSync; generateID(); body = newBody; save(); sign
            \E j \in Unused \cup {i} :
               /\ FreshAfterUnlink(r, i, j, NewBody(prm[r], n))
               /\ enc' = [enc EXCEPT ![r] = Sign(j, secretKey)]
               /\ pc' = [pc EXCEPT ![r] = "ready"]
       ELSE IF CheckValidBody(StoredBody(i), prm[r], ExpirationTime(n))
       THEN \* lastCheck = now; the await of checkValidBody suspends
            /\ Refresh(r, i, n)
            /\ pc' = [pc EXCEPT ![r] = "p_valid"]
            /\ UNCHANGED <<storeVars, enc>>
       ELSE \* body = undefined; await generateID(); return false; continue
            \E j \in Unused :
               /\ id' = [id EXCEPT ![r] = j]
               /\ ref' = [ref EXCEPT ![r] = 0]
               /\ obj' = obj
               /\ pc' = [pc EXCEPT ![r] = "p_cont"]
               /\ UNCHANGED <<storeVars, enc>>
    /\ now' = [now EXCEPT ![r] = IF pc'[r] = "ready" THEN 0 ELSE n]
    /\ pre' = [pre EXCEPT ![r] = IF pc'[r] = "ready" THEN {}
                               ELSE IF pc'[r] = "p_valid" THEN Presented(r, p)
                               ELSE p]

\* start(), from its call to its first await
PStart(r) ==
    /\ pc[r] = "new"
    /\ cls[r] = "PSession"
    /\ IF TokenAccepted(enc[r])
       THEN /\ \E n \in NewDate :
                 ReadClock(n) /\ LoopIter(r, enc[r].payload, n, StoredIds)
            /\ UNCHANGED <<ctx, sid, dg>>
       ELSE IF storeMethod = "custom"
       THEN \* await this.generateID(): the first draw and its getBody
            /\ \E j \in IDs : id' = [id EXCEPT ![r] = j]
            /\ ctx' = [ctx EXCEPT ![r] = TokenCtx(enc[r])]
            /\ pc' = [pc EXCEPT ![r] = "g_get"]
            /\ pre' = [pre EXCEPT ![r] = StoredIds]
            /\ UNCHANGED <<storeVars, clock, ref, obj, enc, now, sid, dg>>
       ELSE \* await this.generateID(): it returns an unused identifier
            /\ \E j \in Unused : id' = [id EXCEPT ![r] = j]
            /\ pc' = [pc EXCEPT ![r] = "p_top"]
            /\ pre' = [pre EXCEPT ![r] = StoredIds]
            /\ UNCHANGED <<storeVars, clock, ref, obj, enc, now, ctx, sid, dg>>
    /\ UNCHANGED <<storeMethod, lastSweep, answered, cls, prm>>
    /\ UNCHANGED routeVars

\* start() resumes after `await this.generateID()` of the token check
PTop(r) ==
    /\ pc[r] = "p_top"
    /\ \E n \in NewDate : ReadClock(n) /\ LoopIter(r, id[r], n, pre[r])
    /\ UNCHANGED <<storeMethod, lastSweep, answered, cls, prm, ctx, sid, dg>>
    /\ UNCHANGED routeVars

\* start() resumes after a rejected body: `continue`
PCont(r) ==
    /\ pc[r] = "p_cont"
    /\ LoopIter(r, id[r], now[r], pre[r])
    /\ UNCHANGED <<storeMethod, lastSweep, answered, clock, cls, prm, ctx, sid, dg>>
    /\ UNCHANGED routeVars

\* start() resumes after an accepted body: save(), break, sign
PValid(r) ==
    /\ pc[r] = "p_valid"
    /\ WriteBody(id[r], ref[r], Body(r))
    /\ enc' = [enc EXCEPT ![r] = Sign(id[r], secretKey)]
    /\ pc' = [pc EXCEPT ![r] = "ready"]
    /\ now' = [now EXCEPT ![r] = 0]
    /\ pre' = [pre EXCEPT ![r] = {}]
    /\ UNCHANGED <<storeMethod, lastSweep, answered, clock, cls, prm, id, ref,
                   obj, ctx, sid, dg>>
    /\ UNCHANGED routeVars

(* ------------------ PSession.start, custom store ---------------------- *)
\* body = newBody after generateID() was called without await: the call has
\* drawn identifier j and waits for its getBody; saveBody(j, body) is called
DetachedFresh(r, j) ==
    /\ id' = [id EXCEPT ![r] = j]
    /\ dg' = [dg EXCEPT ![r] = "wait"]
    /\ obj' = [obj EXCEPT ![r] = NewBody(prm[r], now[r])]
    /\ ref' = [ref EXCEPT ![r] = r]
    /\ sid' = [sid EXCEPT ![r] = j]
    /\ pc' = [pc EXCEPT ![r] = "c_save"]

\* start() rejects: the handler's `await session.start()` throws and the
\* session object is dropped with the failed request
Rejects(r) ==
    /\ pc' = [pc EXCEPT ![r] = "rejected"]
    /\ id' = [id EXCEPT ![r] = NoId]
    /\ ref' = [ref EXCEPT ![r] = 0]
    /\ obj' = [obj EXCEPT ![r] = NoBody]
    /\ enc' = [enc EXCEPT ![r] = NoToken]
    /\ now' = [now EXCEPT ![r] = 0]
    /\ ctx' = [ctx EXCEPT ![r] = "none"]
    /\ sid' = [sid EXCEPT ![r] = NoId]
    /\ dg' = [dg EXCEPT ![r] = "off"]
    /\ pre' = [pre EXCEPT ![r] = {}]

\* the awaited generateID() gets the answer of getBody(this._id)
GGet(r) ==
    /\ pc[r] = "g_get"
    /\ ~MicroPending
    /\ \/ \* an entry exists: draw again
          /\ Stored(id[r])
          /\ \E j \in IDs : id' = [id EXCEPT ![r] = j]
          /\ UNCHANGED <<pc, ctx, now, clock, pre, ref, obj, enc, sid, dg>>
       \/ \* no entry: generateID() returns; start() goes on to the loop
          /\ ~Stored(id[r])
          /\ pc' = [pc EXCEPT ![r] = "c_get"]
          /\ IF ctx[r] = "check"
             THEN UNCHANGED <<now, clock>>
             ELSE \E n \in NewDate : ReadClock(n) /\ now' = [now EXCEPT ![r] = n]
          /\ ctx' = [ctx EXCEPT ![r] = IF ctx[r] = "check" THEN "retry" ELSE "none"]
          /\ UNCHANGED <<id, pre, ref, obj, enc, sid, dg>>
       \/ \* getBody rejects inside the try of the token check: its catch
          \* calls generateID() again
          /\ ctx[r] = "else"
          /\ \E j \in IDs : id' = [id EXCEPT ![r] = j]
          /\ ctx' = [ctx EXCEPT ![r] = "catch"]
          /\ UNCHANGED <<pc, now, clock, pre, ref, obj, enc, sid, dg>>
       \/ \* getBody rejects where no try encloses the call: start() rejects
          /\ ctx[r] \in {"notoken", "catch"}
          /\ Rejects(r)
          /\ UNCHANGED clock
       \/ \* getBody rejects inside checkValidBody: the loop's catch
          /\ ctx[r] = "check"
          /\ pc' = [pc EXCEPT ![r] = "c_destroy"]
          /\ ctx' = [ctx EXCEPT ![r] = "none"]
          /\ UNCHANGED <<id, now, clock, pre, ref, obj, enc, sid, dg>>
    /\ UNCHANGED <<storeMethod, lastSweep, answered, storeVars, cls, prm>>
    /\ UNCHANGED routeVars

\* the loop gets the answer of getBody(this._id)
CGet(r) ==
    /\ pc[r] = "c_get"
    /\ ~MicroPending
    /\ \/ \* a body that checkValidBody accepts: saveBody(this._id, this.body)
          /\ Stored(id[r])
          /\ CheckValidBody(StoredBody(id[r]), prm[r], ExpirationTime(now[r]))
          /\ Refresh(r, id[r], now[r])
          /\ sid' = [sid EXCEPT ![r] = id[r]]
          /\ pc' = [pc EXCEPT ![r] = "c_save"]
          /\ UNCHANGED ctx
          /\ UNCHANGED dg
       \/ \* a body that checkValidBody rejects: await generateID()
          /\ Stored(id[r])
          /\ ~CheckValidBody(StoredBody(id[r]), prm[r], ExpirationTime(now[r]))
          /\ \E j \in IDs : id' = [id EXCEPT ![r] = j]
          /\ ctx' = [ctx EXCEPT ![r] = "check"]
          /\ pc' = [pc EXCEPT ![r] = "g_get"]
          /\ UNCHANGED <<ref, obj, sid, dg>>
       \/ \* no body
          /\ ~Stored(id[r])
          /\ \E j \in IDs : DetachedFresh(r, j)
          /\ UNCHANGED ctx
       \/ \* getBody rejects: catch, await destroyBody(this._id)
          /\ pc' = [pc EXCEPT ![r] = "c_destroy"]
          /\ ctx' = [ctx EXCEPT ![r] = "none"]
          /\ UNCHANGED <<id, ref, obj, sid, dg>>
    /\ pre' = [pre EXCEPT ![r] = IF pc'[r] = "c_save" THEN Presented(r, pre[r])
                               ELSE pre[r]]
    /\ UNCHANGED <<storeMethod, lastSweep, answered, storeVars, clock, cls, prm, enc, now>>
    /\ UNCHANGED routeVars

\* the catch of the loop gets the answer of destroyBody(this._id)
CDestroy(r) ==
    /\ pc[r] = "c_destroy"
    /\ ~MicroPending
    /\ \/ /\ bodies' = [bodies EXCEPT ![id[r]] = Absent]
          /\ \E j \in IDs : DetachedFresh(r, j)
          /\ pre' = [pre EXCEPT ![r] = Presented(r, pre[r])]
          /\ UNCHANGED <<now, enc, ctx>>
       \/ \* destroyBody rejects: nothing catches it, start() rejects
          /\ Rejects(r)
          /\ UNCHANGED bodies
    /\ UNCHANGED <<storeMethod, lastSweep, answered, sessions, clock, cls, prm>>
    /\ UNCHANGED routeVars

\* the custom store carries out the pending saveBody(sid, body)
CSaveEffect(r) ==
    /\ pc[r] = "c_save"
    /\ ~MicroPending
    /\ \/ /\ bodies' = [bodies EXCEPT ![sid[r]] = Stringify(Body(r))]
          /\ ctx' = [ctx EXCEPT ![r] = "none"]
          /\ pc' = [pc EXCEPT ![r] = "c_saved"]
          /\ UNCHANGED <<id, ref, obj, enc, now, sid, dg, pre>>
       \/ \* saveBody rejects: start() rejects
          /\ Rejects(r)
          /\ UNCHANGED bodies
    /\ UNCHANGED <<storeMethod, lastSweep, answered, sessions, clock, cls, prm>>
    /\ UNCHANGED routeVars

\* start() resumes after `await saveBody`: break, sign
CSaveDone(r) ==
    /\ pc[r] = "c_saved"
    /\ ~MicroPending
    /\ enc' = [enc EXCEPT ![r] = Sign(id[r], secretKey)]
    /\ sid' = [sid EXCEPT ![r] = NoId]
    /\ now' = [now EXCEPT ![r] = 0]
    /\ pre' = [pre EXCEPT ![r] = {}]
    /\ pc' = [pc EXCEPT ![r] = "ready"]
    /\ UNCHANGED <<storeMethod, lastSweep, answered, storeVars, clock, cls, prm,
                   id, ref, obj, ctx, dg>>
    /\ UNCHANGED routeVars

\* the generateID() call that nobody awaits gets the answer of getBody(this._id)
DetachedGenerateID(r) ==
    /\ dg[r] = "wait"
    /\ ~MicroPending
    /\ \/ /\ Stored(id[r])
          /\ \E j \in IDs : id' = [id EXCEPT ![r] = j]
          /\ UNCHANGED dg
       \/ /\ ~Stored(id[r])
          /\ dg' = [dg EXCEPT ![r] = "off"]
          /\ UNCHANGED id
       \/ \* getBody rejects: the call ends, nobody handles the rejection
          /\ dg' = [dg EXCEPT ![r] = "off"]
          /\ UNCHANGED id
    /\ UNCHANGED <<storeMethod, lastSweep, answered, storeVars, clock, pc, cls, prm, ref,
                   obj, enc, now, ctx, sid, pre>>
    /\ UNCHANGED routeVars

(* ------------------------------ the sweep ----------------------------- *)
\* a sweep that leaves the files it cannot parse
SweepsFileSkipsUnparsable(c, e) == IF Parses(c) THEN Expired(Parse(c), e) ELSE FALSE

\* whether the sweep deletes a file of the store directory
SweepsFile(c, e) == IF Parses(c) THEN Expired(Parse(c), e) ELSE TRUE
\* whether the sweep deletes an entry of the memory collection
SweepsEntry(b, e) == Expired(b, e)

\* whether the sweep deletes what the backend holds under identifier i
SweepsStored(i, e) ==
    IF storeMethod = "memory" THEN SweepsEntry(obj[sessions[i]], e)
    ELSE SweepsFile(bodies[i], e)

\* clearOldSessions / PWebServer.deleteOldFiles: a timer callback without
\* await.  A sweep that finds nothing to delete changes nothing and is no step
ClearOldSessions ==
    /\ storeMethod \in {"files", "memory"}
    /\ ~MicroPending
    /\ \E t \in NewDate :
       LET e == ExpirationTime(t) IN
         /\ ReadClock(t)
         /\ lastSweep' = <<e>>
         /\ \E i \in IDs : Stored(i) /\ SweepsStored(i, e)
         /\ IF storeMethod = "memory"
            THEN /\ sessions' = [i \in IDs |->
                        IF Stored(i) /\ SweepsStored(i, e)
                        THEN 0 ELSE sessions[i]]
                 /\ UNCHANGED bodies
            ELSE /\ bodies' = [i \in IDs |->
                        IF Stored(i) /\ SweepsStored(i, e)
                        THEN Absent ELSE bodies[i]]
                 /\ UNCHANGED sessions
    /\ UNCHANGED <<storeMethod, answered, pc, cls, prm, id, ref, obj, enc,
                   startVars>>
    /\ UNCHANGED routeVars

(* ----------------------------- detectRoute ---------------------------- *)
sessionVars == <<storeMethod, sessions, bodies, clock, pc, cls, prm, id, ref,
                 obj, enc, now, ctx, sid, dg, pre, answered, lastSweep>>

\* the paths of at most n segments
PathsUpTo(n) == UNION {[1..k -> Segs] : k \in 0..n}

\* the phases in which detectRoute waits for code of the application
HookPcs == {"requestReceived", "notFound", "beforeExecute", "toExecute", "finally"}

\* the type notFound() hands to the hook when it is called with type
HookType(type) == "script"
\* this.notFound(type, ...): the type it is called with, the type the hook is told
NotFoundCall(type) == [type |-> type, told |-> HookType(type)]
\* a `??` that takes its right side whatever the left one is
CoalesceRight(a, b) == b
\* notFoundEventResponse ?? response, NoResponse standing for undefined
Coalesce(a, b) == IF a = NoResponse THEN b ELSE a

\* a hook whose envelope is never taken for the response
ShortCircuitsNever(out) == FALSE
\* if (response) return response: what the hook returned is an envelope
ShortCircuits(out) == out = "envelope"
\* the hook of the phase has settled with out: "void", "envelope" or an error
Settled(phase, out) ==
    [phase |-> phase, out |-> IF out \in Errs THEN "throws" ELSE out]

\* the inner function returns the envelope e: detectRoute goes on to the cookie
InnerReturns(e) == dr' = [dr EXCEPT !.pc = "respond", !.response = e]

\* detectRoute from its call to its first await: new PRequest, new Session, the
\* protocol redirect, the call of the requestReceived hook
Receive(r) ==
    /\ dr.pc = "idle"
    /\ pc[r] = "idle"
    /\ \A q \in Reqs : q < r => pc[q] # "idle"
    /\ storeMethod \in {"files", "memory"}
    /\ \E cookieOk \in BOOLEAN :
         IF ~cookieOk
         THEN \* decodeURI of a cookie value throws a URIError in new PRequest
              /\ dr' = [DrIdle EXCEPT !.pc = "escaped", !.r = r]
              /\ UNCHANGED sessionVars
         ELSE \E hs \in RawTokens, a \in ClientAttrs(r), protocol \in {"http", "https"} :
                /\ SessionNew(r, hs, a)
                /\ IF protocol = "http" /\ HttpsWebServerPort(config) # 0
                   THEN \E pathUrl \in PathsUpTo(MaxRouteParts) \ {<<>>},
                           queryUrl \in QueryUrls :
                          dr' = [DrIdle EXCEPT !.pc = "returned", !.r = r,
                                    !.protocol = protocol,
                                    !.pathUrl = pathUrl, !.queryUrl = queryUrl,
                                    !.response = RedirectEnvelope(
                                       RedirectUrl(a.hostname,
                                                   HttpsWebServerPort(config),
                                                   pathUrl, queryUrl))]
                   ELSE \E method \in Methods, ip \in Ips,
                           parts \in PathsUpTo(MaxRouteParts), pf \in BOOLEAN :
                          dr' = [DrIdle EXCEPT !.pc = "requestReceived", !.r = r,
                                    !.protocol = protocol, !.method = method,
                                    !.ip = ip, !.parts = parts, !.publicFile = pf,
                                    !.calls.requestReceived = 1]
    /\ UNCHANGED <<config, server>>

\* the requestReceived hook settles (none configured: as if it returned nothing)
RequestReceived(r) ==
    /\ dr.pc = "requestReceived" /\ dr.r = r
    /\ \E out \in {"void", "envelope"} \cup Errs :
         LET d == [dr EXCEPT !.hook = Settled("requestReceived", out)] IN
         IF out \in Errs
         THEN dr' = [d EXCEPT !.pc = "returned",
                        !.response = Envelope(503, "requestReceived", NoDetail),
                        !.thrown = Append(@, <<"requestReceived", out>>)]
         ELSE IF ShortCircuits(out)
         THEN \* if (response) return response
              dr' = [d EXCEPT !.pc = "returned", !.response = HookEnvelope]
         ELSE dr' = [d EXCEPT !.pc = "resolve"]
    /\ UNCHANGED <<sessionVars, config, server>>

\* the inner function from its start to its first await: the public file, the
\* walk down the route tree
ResolveRoute(r) ==
    /\ dr.pc = "resolve" /\ dr.r = r
    /\ IF dr.publicFile
       THEN InnerReturns(Envelope(200, "file", NoDetail))
       ELSE LET w == RouteWalk(config.tree, dr.parts) IN
            IF w.kind = "throws"
            THEN dr' = [dr EXCEPT !.pc = "escaped"]
            ELSE IF w.kind = "notFound"
            THEN dr' = [dr EXCEPT !.pc = "notFound", !.walk = w,
                           !.calls.notFound = @ + 1,
                           !.notFound = NotFoundCall("script")]
            ELSE dr' = [dr EXCEPT !.pc = "load", !.walk = w]
    /\ UNCHANGED <<sessionVars, config, server>>

\* notFound(): the notFound hook settles
NotFound(r) ==
    /\ dr.pc = "notFound" /\ dr.r = r
    /\ \E out \in {"void", "envelope"} \cup Errs :
         LET d == [dr EXCEPT !.hook = Settled("notFound", out)] IN
         IF out \in Errs
         THEN dr' = [d EXCEPT !.pc = "respond",
                        !.response = Envelope(500, "notFound", NoDetail),
                        !.thrown = Append(@, <<"notFound", out>>)]
         ELSE dr' = [d EXCEPT !.pc = "respond",
                        !.response = Coalesce(
                           IF out = "envelope" THEN HookEnvelope ELSE NoResponse,
                           Envelope(404, "No se encontro la ruta", NoDetail))]
    /\ UNCHANGED <<sessionVars, config, server>>

\* a gate that lets every function through
ValidHandlerAnyFunction(u, name) == TypeOf(u, name) = "function"

\* typeof toExecute == 'function' && toExecute.constructor.name == 'AsyncFunction'
ValidHandler(u, name) ==
    TypeOf(u, name) = "function" /\ ConstructorName(u, name) = "AsyncFunction"

\* the two list checks: the envelope is the 401 one
Forbidden(u, ip) ==
    \/ u.whiteList # {} /\ ip \notin u.whiteList
    \/ u.blackList # {} /\ ip \in u.blackList

\* loadRouteClass settles: new routeClass(...), the function name, the
\* parameters, the checks of the member and of the IP lists, the call of the
\* beforeExecute hook
LoadRouteClass(r) ==
    /\ dr.pc = "load" /\ dr.r = r
    /\ \/ \* require fails (a relative config.paths.routes is resolved twice),
          \* the export is no PRoute class, or the constructor throws
          \E e \in Errs :
            dr' = [dr EXCEPT !.pc = "respond",
                      !.response = [Envelope(500, "", NoDetail) EXCEPT
                         !.body = ErrorBody(config.showErrorsOnClient, "import", e)],
                      !.thrown = Append(@, <<"import", e>>)]
       \/ \E u \in RouteClasses :
            LET f == FunctionName(u, dr.method, PartAt(dr.parts, dr.walk.i))
                i == dr.walk.i + f.consumed
                d == [dr EXCEPT !.routeObject = u, !.functionName = f.name, !.i = i]
            IN IF f.name = NoName
               THEN dr' = [d EXCEPT !.pc = "notFound", !.calls.notFound = @ + 1,
                              !.notFound = NotFoundCall("function")]
               ELSE IF \E k \in 1..Len(Rest(dr.parts, i)) : Malformed(Rest(dr.parts, i)[k])
               THEN dr' = [d EXCEPT !.pc = "escaped"]
               ELSE LET g == [d EXCEPT !.parameters = Parameters(dr.parts, i)] IN
                    IF TypeOf(u, f.name) = Undefined
                    THEN dr' = [g EXCEPT !.pc = "respond",
                                   !.response = Envelope(404, "no existe", NoDetail)]
                    ELSE IF ~ValidHandler(u, f.name)
                    THEN dr' = [g EXCEPT !.pc = "respond",
                                   !.response = Envelope(500, "no es valida", NoDetail)]
                    ELSE IF Forbidden(u, dr.ip)
                    THEN dr' = [g EXCEPT !.pc = "respond",
                                   !.response = Envelope(401, "prohibido", NoDetail)]
                    ELSE dr' = [g EXCEPT !.pc = "beforeExecute",
                                   !.calls.beforeExecute = 1]
    /\ UNCHANGED <<sessionVars, config, server>>

\* the beforeExecute hook settles; toExecute.apply(routeObject, parameters)
BeforeExecute(r) ==
    /\ dr.pc = "beforeExecute" /\ dr.r = r
    /\ \E out \in {"void", "envelope"} \cup Errs :
         LET d == [dr EXCEPT !.hook = Settled("beforeExecute", out)] IN
         IF out \in Errs
         THEN dr' = [d EXCEPT !.pc = "respond",
                        !.response = Envelope(500, "beforeExecute", NoDetail),
                        !.thrown = Append(@, <<"beforeExecute", out>>)]
         ELSE IF ShortCircuits(out)
         THEN dr' = [d EXCEPT !.pc = "respond", !.response = HookEnvelope]
         ELSE dr' = [d EXCEPT !.pc = "toExecute", !.calls.toExecute = @ + 1]
    /\ UNCHANGED <<sessionVars, config, server>>

\* a try statement whose finally block is skipped when the catch block ran
FinallyUnlessCaught(threw) == IF threw THEN 0 ELSE 1

\* try { toExecute } catch { ... } finally { routeObject.finally() }: how many
\* times the finally block runs
FinallyBlock(threw) == 1

\* the handler settles: its result, or the envelope of the catch block; the
\* call of routeObject.finally()
ToExecute(r) ==
    /\ dr.pc = "toExecute" /\ dr.r = r
    /\ \E out \in {"value", "envelope"} \cup Errs :
         LET threw == out \in Errs
             res == IF out = "value" THEN Envelope(200, "value", NoDetail)
                    ELSE IF out = "envelope" THEN HandlerEnvelope
                    ELSE [Envelope(500, "", NoDetail) EXCEPT
                            !.body = ErrorBody(config.showErrorsOnClient, "function", out)]
             d == [dr EXCEPT !.result = res,
                             !.thrown = IF threw THEN Append(@, <<"toExecute", out>>) ELSE @]
         IN IF FinallyBlock(threw) = 1
            THEN dr' = [d EXCEPT !.pc = "finally", !.calls.finally = @ + 1]
            ELSE dr' = [d EXCEPT !.pc = "respond", !.response = res]
    /\ UNCHANGED <<sessionVars, config, server>>

\* routeObject.finally() settles; the result becomes the envelope
Finally(r) ==
    /\ dr.pc = "finally" /\ dr.r = r
    /\ \/ InnerReturns(dr.result)
       \/ \E e \in Errs :
            dr' = [dr EXCEPT !.pc = "respond",
                      !.response = Envelope(500, "finally", NoDetail),
                      !.thrown = Append(@, <<"finally", e>>)]
    /\ UNCHANGED <<sessionVars, config, server>>

\* the cookie detectRoute pushes
HsCookie(r) ==
    [name |-> "hs", value |-> Raw(id[r]), httpOnly |-> TRUE,
     sameSite |-> config.sameSiteCookie]

\* response.cookies.push({name: 'hs', ...}); return response
PushCookie(r) ==
    /\ dr.pc = "respond" /\ dr.r = r
    /\ dr' = [dr EXCEPT !.pc = "returned",
                        !.response.cookies = Append(@, HsCookie(r))]
    /\ pc' = [pc EXCEPT ![r] = "done"]
    /\ UNCHANGED <<storeMethod, sessions, bodies, clock, cls, prm, id, ref,
                   obj, enc, now, ctx, sid, dg, pre, answered, lastSweep, config, server>>

\* session.start(), called by a hook, the handler or routeObject.finally()
HookSessionStart(r) ==
    /\ dr.pc \in HookPcs /\ dr.r = r
    /\ SessionStart(r)

\* detectRoute, one request
NextRoute ==
    \/ \E r \in Reqs : Receive(r)
    \/ \E r \in Reqs : RequestReceived(r)
    \/ \E r \in Reqs : ResolveRoute(r)
    \/ \E r \in Reqs : NotFound(r)
    \/ \E r \in Reqs : LoadRouteClass(r)
    \/ \E r \in Reqs : BeforeExecute(r)
    \/ \E r \in Reqs : ToExecute(r)
    \/ \E r \in Reqs : Finally(r)
    \/ \E r \in Reqs : PushCookie(r)
    \/ \E r \in Reqs : HookSessionStart(r)

\* a server of any configuration that has received no request
InitRoute ==
    /\ InitSession
    /\ server = Serving
    /\ storeMethod \in {"files", "memory"}
    /\ bodies = [i \in IDs |-> Absent]
    /\ config \in Configs
    /\ config.tree = Tree1
    /\ dr = DrIdle

\* the dispatcher with its class Session
NextDispatch ==
    \/ ClearOldSessions
    \/ \E r \in Reqs : DetectRouteBegin(r)
    \/ \E r \in Reqs : DetectRouteEnd(r)
    \/ \E r \in Reqs : Set(r)
    \/ \E r \in Reqs : Save(r)
    \/ \E r \in Reqs : Destroy(r)
    \/ \E r \in Reqs : SessionStart(r)

\* the class PSession
NextPSession ==
    \/ ClearOldSessions
    \/ \E r \in Reqs : PSessionNew(r)
    \/ \E r \in Reqs : Set(r)
    \/ \E r \in Reqs : Save(r)
    \/ \E r \in Reqs : Destroy(r)
    \/ \E r \in Reqs : PStart(r)
    \/ \E r \in Reqs : PTop(r)
    \/ \E r \in Reqs : PCont(r)
    \/ \E r \in Reqs : PValid(r)
    \/ \E r \in Reqs : GGet(r)
    \/ \E r \in Reqs : CGet(r)
    \/ \E r \in Reqs : CDestroy(r)
    \/ \E r \in Reqs : CSaveEffect(r)
    \/ \E r \in Reqs : CSaveDone(r)
    \/ \E r \in Reqs : DetachedGenerateID(r)

SpecDispatch == Init /\ [][NextDispatch]_vars
SpecRoute == InitRoute /\ [][NextRoute]_vars

\* a server with one request whose session has been
\* constructed and whose requestReceived hook let it through
InitServing ==
    /\ server = Serving
    /\ storeMethod = "memory"
    /\ sessions = [i \in IDs |-> 0]
    /\ bodies = [i \in IDs |-> Absent]
    /\ clock = 0
    /\ pc = [r \in Reqs |-> IF r = 1 THEN "new" ELSE "idle"]
    /\ cls = [r \in Reqs |-> IF r = 1 THEN "Session" ELSE "none"]
    /\ prm = [r \in Reqs |-> FirstAttrs]
    /\ id = [r \in Reqs |-> NoId]
    /\ ref = [r \in Reqs |-> 0]
    /\ obj = [r \in Reqs |-> NoBody]
    /\ enc = [r \in Reqs |-> NoToken]
    /\ now = [r \in Reqs |-> 0]
    /\ ctx = [r \in Reqs |-> "none"]
    /\ sid = [r \in Reqs |-> NoId]
    /\ dg = [r \in Reqs |-> "off"]
    /\ pre = [r \in Reqs |-> {}]
    /\ answered = [r \in Reqs |-> {}]
    /\ lastSweep = <<>>

\* the configurations that differ in the route tree only
TreeConfigs == {[DefaultConfig EXCEPT !.tree = t] : t \in Trees}

\* the frames of detectRoute at the start of its inner function, for a request
\* of any path
InnerFrames ==
    {[DrIdle EXCEPT !.pc = "resolve", !.r = 1, !.protocol = "https",
                    !.method = method, !.ip = ip, !.parts = parts] :
       method \in Methods, ip \in Ips, parts \in PathsUpTo(MaxParts)}

\* detectRoute at the start of its inner function
InitResolve == InitServing /\ config \in TreeConfigs /\ dr \in InnerFrames

\* the resolution of the route: the walk, the unit, the function, the parameters
NextResolve ==
    \/ \E r \in Reqs : ResolveRoute(r)
    \/ \E r \in Reqs : LoadRouteClass(r)

SpecResolve == InitResolve /\ [][NextResolve]_vars

\* detectRoute at the start of its inner function, with the path of the
\* request as it arrived
InitPath ==
    /\ InitServing
    /\ \E cfg \in PathConfigs : \E raw \in RawPaths(cfg) :
         /\ config = cfg
         /\ dr = [DrIdle EXCEPT !.pc = "rewrite", !.r = 1, !.protocol = "https",
                                !.method = "get", !.ip = "ip1", !.pathUrl = raw]

\* the inner function up to pathParts: base path, rules, default route, the
\* look into the public directory, the split
RewritePath(r) ==
    /\ dr.pc = "rewrite" /\ dr.r = r
    /\ LET pathUrl == PathUrl(config, dr.pathUrl) IN
       dr' = [dr EXCEPT !.pc = "resolve",
                        !.publicFile = PublicFileExists(config, dr.pathUrl, pathUrl),
                        !.parts = PathParts(pathUrl)]
    /\ UNCHANGED <<sessionVars, config, server>>

\* the path of the request up to the unit
NextPath ==
    \/ \E r \in Reqs : RewritePath(r)
    \/ \E r \in Reqs : ResolveRoute(r)

SpecPath == InitPath /\ [][NextPath]_vars

\* detectRoute about to enter `while (!routeObject)`
InitWalk ==
    /\ InitServing
    /\ config \in TreeConfigs
    /\ \E f \in InnerFrames : dr = [f EXCEPT !.walk = WalkStart(f.parts)]

\* one pass of the loop
WalkStep(r) ==
    /\ dr.pc = "resolve" /\ dr.r = r
    /\ dr.walk.kind = "walking"
    /\ dr' = [dr EXCEPT !.walk = WalkIter(config.tree, dr.parts, dr.walk)]
    /\ UNCHANGED <<sessionVars, config, server>>

NextWalk == \E r \in Reqs : WalkStep(r)

\* the loop runs on its own: nothing it waits for can keep it from its next pass
SpecWalk == InitWalk /\ [][NextWalk]_vars /\ WF_vars(NextWalk)
(* ------------------------ constructing the server ---------------------- *)
\* new PWebServer(config)
Construct ==
    /\ server.state = "new"
    /\ LET p == config
           e == Validate(p)
       IN server' = IF e # "none"
                    THEN [server EXCEPT !.state = "thrown", !.thrown = e]
                    ELSE [server EXCEPT !.state = "constructed", !.app = TRUE,
                                        !.middleware = TRUE,
                                        !.servers = {k \in {"http", "https"} :
                                                       IF k = "http" THEN p.http
                                                       ELSE p.https}]
    /\ UNCHANGED <<sessionVars, config, dr>>

\* start(): throws if the server listens already
Start ==
    /\ server.state \in {"constructed", "started"}
    /\ server' = IF server.listening # {}
                 THEN [server EXCEPT !.thrown = "Error"]
                 ELSE [server EXCEPT !.state = "started",
                                     !.listening = server.servers,
                                     !.interval = TRUE]
    /\ UNCHANGED <<sessionVars, config, dr>>

\* a configuration about to be given to the constructor
InitConstruct ==
    /\ InitSession
    /\ bodies = [i \in IDs |-> Absent]
    /\ config \in Params
    /\ dr = DrIdle
    /\ server = Unbuilt
    /\ storeMethod = config.storeMethod

NextConstruct ==
    \/ Construct
    \/ Start

SpecConstruct == InitConstruct /\ [][NextConstruct]_vars

(* ------------------------ get and set of PSession --------------------- *)
\* the keys and values a handler uses
DataKeys == {"k", "k2"}
DataVals == {"v", "w"}
\* the bodies a session holds when it is handed over: new ones, and ones
\* loaded with the data of earlier requests, which stored "v" if anything
DataBodies ==
    {[NewBody(FirstAttrs, n) EXCEPT !.data = d] :
       n \in Instants, d \in [DataKeys -> {Null, "v"}]}

\* where start() of a PSession is, and whether this.body is assigned there:
\* not called; at `await this.generateID()`; at `await this.checkValidBody()`
\* of an accepted body; at `await this.storeMethod.saveBody()`; completed
StartPoints ==
    {[pc |-> "new", body |-> FALSE, store |-> m] : m \in StoreMethods}
    \cup {[pc |-> "p_top", body |-> FALSE, store |-> m] : m \in {"files", "memory"}}
    \cup {[pc |-> "p_valid", body |-> TRUE, store |-> m] : m \in {"files", "memory"}}
    \cup {[pc |-> "c_save", body |-> TRUE, store |-> "custom"]}
    \cup {[pc |-> "ready", body |-> TRUE, store |-> m] : m \in StoreMethods}

\* one PSession, at any point of its start(), with any body
InitData ==
    /\ server = Serving
    /\ config = DefaultConfig
    /\ dr = DrIdle
    /\ clock = 0
    /\ cls = [r \in Reqs |-> IF r = 1 THEN "PSession" ELSE "none"]
    /\ prm = [r \in Reqs |-> FirstAttrs]
    /\ now = [r \in Reqs |-> 0]
    /\ ctx = [r \in Reqs |-> "none"]
    /\ dg = [r \in Reqs |-> "off"]
    /\ pre = [r \in Reqs |-> {}]
    /\ answered = [r \in Reqs |-> {}]
    /\ lastSweep = <<>>
    /\ \E p \in StartPoints, b \in DataBodies :
         /\ storeMethod = p.store
         /\ pc = [r \in Reqs |-> IF r = 1 THEN p.pc ELSE "idle"]
         /\ id = [r \in Reqs |-> IF r = 1 /\ p.pc # "new" THEN 1 ELSE NoId]
         /\ ref = [r \in Reqs |-> IF r = 1 /\ p.body THEN 1 ELSE 0]
         /\ obj = [r \in Reqs |-> IF r = 1 /\ p.body THEN b ELSE NoBody]
         /\ enc = [r \in Reqs |-> IF r = 1 /\ p.pc = "ready" THEN Sign(1, secretKey)
                                  ELSE NoToken]
         /\ sid = [r \in Reqs |-> IF r = 1 /\ p.pc = "c_save" THEN 1 ELSE NoId]
         /\ sessions = [i \in IDs |-> IF i = 1 /\ p.body /\ p.store = "memory"
                                      THEN 1 ELSE 0]
         /\ bodies = [i \in IDs |-> IF i = 1 /\ p.body /\ p.store = "files"
                                    THEN Stringify(b) ELSE Absent]

\* set(name, value), called by whoever holds the session object, at any time
SetKey(r) ==
    /\ pc[r] # "idle"
    /\ \E k \in DataKeys, v \in DataVals : SetCall(r, k, v)
    /\ UNCHANGED <<storeMethod, lastSweep, answered, storeVars, clock, pc, cls, prm, id, ref,
                   enc, startVars>>
    /\ UNCHANGED routeVars

NextData == \E r \in Reqs : SetKey(r)

SpecData == InitData /\ [][NextData]_vars

Spec == Init /\ [][NextPSession]_vars

(* ------------------------------- claims ------------------------------- *)
\* start() of request r returns in this step
Completes(r) == cls[r] = "PSession" /\ pc[r] # "ready" /\ pc'[r] = "ready"

\* the identifier whose entry request r looks up in its next pass of the loop
Examined(r) == IF pc[r] = "new" THEN enc[r].payload ELSE id[r]

\* the time of request r's start(): read in this step, or read before
StartTime(r) == IF pc[r] \in {"new", "p_top"} THEN clock' ELSE now[r]

\* request r gets in this step the well-formed body stored under its identifier
Examines(r) ==
    /\ cls[r] = "PSession"
    /\ \/ pc[r] = "new" /\ TokenAccepted(enc[r]) /\ storeMethod # "custom"
          /\ pc'[r] # "new"
       \/ pc[r] \in {"p_top", "p_cont"} /\ <<pc[r], id[r]>>' # <<pc[r], id[r]>>
       \/ pc[r] = "c_get" /\ pc'[r] \in {"c_save", "g_get"}
    /\ Stored(Examined(r))
    /\ StoredBody(Examined(r)) # NoBody

\* request r has in this step unlinked or destroyed the entry it looked up
Unlinks(r) ==
    \/ storeMethod = "files" /\ Stored(Examined(r)) /\ ~Parses(bodies[Examined(r)])
    \/ pc[r] = "c_destroy"

\* request r saves in this step a fresh body: save() or the call of saveBody
SavesFresh(r) ==
    /\ cls[r] = "PSession"
    /\ \/ pc[r] \in {"new", "p_top", "p_cont"} /\ pc'[r] = "ready"
       \/ pc[r] \in {"c_get", "c_destroy"} /\ pc'[r] = "c_save" /\ dg'[r] = "wait"

\* the backend holds a body under identifier j at the moment request r saves:
\* an entry that r has just unlinked or destroyed is gone by then
HeldAtSave(r, j) == Stored(j) /\ ~(Unlinks(r) /\ j = Examined(r))

\* the presented token is one that start() does not accept
Rejected(tok) == tok # NoToken /\ ~TokenAccepted(tok)

\* request r settles in this step the identifier it loads from or saves under
Settles(r) ==
    /\ cls[r] = "PSession"
    /\ pc[r] \in {"new", "p_top", "p_cont", "c_get"}
    /\ pc'[r] \in {"p_valid", "c_save", "ready"}

\* C1: if the handler of request r1 has set k to v and the response carried the
\* hs cookie, and request r2 presents that cookie with the same userAgent and
\* hostname inside the expiration window, then get(k) in r2 returns v, whatever
\* the backend, without the handler having called save().
C1_DataSurvivesAcrossRequests ==
    [][\A r1, r2 \in Reqs : \A k \in Keys, v \in Vals :
         ( /\ r1 # r2
           /\ pc[r1] = "done" /\ Get(r1, k) = v /\ Stored(id[r1])
           /\ r1 \in answered[r2]
           /\ pc[r2] = "new" /\ pc'[r2] = "ready"
           /\ Raw(id[r2]) = Cookie(r1)
           /\ prm[r2] = prm[r1]
           /\ ~Expired(Body(r1), ExpirationTime(clock')) )
         => Get(r2, k)' = v]_vars

\* C2: whenever start() saves a fresh body under a newly generated identifier,
\* the backend holds no body under that identifier at that moment, on every
\* backend and for every interleaving of overlapping start() calls.
C2_NewIdentifierIsUnused ==
    [][\A r \in Reqs :
         SavesFresh(r) => ~HeldAtSave(r, id'[r])]_vars

\* C3: when start() returns, the issued token embeds session.id and the backend
\* holds the session's body under exactly that identifier (stated for a start()
\* that no other request runs beside).
C3_TokenIdHoldsBody ==
    [][\A r \in Reqs :
         (Completes(r) /\ \A q \in Reqs \ {r} : pc[q] = "idle")
         => /\ enc'[r] = Sign(id'[r], secretKey)
            /\ (Stored(id[r]) /\ StoredBody(id[r]) = Body(r))']_vars

\* C4: a token issued by start() verifies with the same secret to the session's
\* identifier; and a start() given a token of another secret, an altered token
\* or a token whose identifier is not UUID-shaped does not settle on an
\* identifier under which the backend held a body before the call and holds
\* one still, neither to load that body nor to save its fresh, empty body.
C4_TamperedTokenGetsNewSession ==
    [][\A r \in Reqs :
         /\ Completes(r)
            => VerifyOk(enc'[r], secretKey) /\ enc'[r].payload = id'[r]
         /\ (Rejected(enc[r]) /\ Settles(r))
            => ~(id'[r] \in pre[r] /\ Stored(id'[r]))
         /\ (Rejected(enc[r]) /\ SavesFresh(r))
            => Body(r)'.data = EmptyData]_vars

\* C5: if request r2 presents the token of r1's session, whose body the backend
\* held when start() of r2 was called, and the userAgent or hostname of r2
\* differs from those of that body, then start() of r2 gives the session a
\* fresh body with an empty data mapping and does not save it under the
\* presented identifier while the backend holds a body there.
C5_BindingGuard ==
    [][\A r1, r2 \in Reqs :
         ( /\ r1 # r2
           /\ cls[r1] = "PSession" /\ pc[r1] = "ready"
           /\ TokenAccepted(enc[r2]) /\ enc[r2] = enc[r1]
           /\ enc[r2].payload \in pre[r2]
           /\ \/ prm[r2].userAgent # Body(r1).userAgent
              \/ prm[r2].hostname # Body(r1).hostname
           /\ SavesFresh(r2) )
         => /\ ~(id'[r2] = enc[r2].payload /\ HeldAtSave(r2, id'[r2]))
            /\ Body(r2)'.data = EmptyData]_vars

\* C6: a stored body whose lastCheck is exactly the time of start() minus
\* minutesExpiration is accepted (identifier kept); one whose lastCheck is one
\* millisecond earlier is rejected (body discarded, identifier regenerated).
C6_ExpirationBoundary ==
    [][\A r \in Reqs :
         LET b == StoredBody(Examined(r)) IN
         ( /\ Examines(r)
           /\ b.userAgent = prm[r].userAgent /\ b.hostname = prm[r].hostname )
         => /\ b.lastCheck = StartTime(r) - Span
               => /\ pc'[r] \in {"p_valid", "c_save"}
                  /\ id'[r] = Examined(r)
                  /\ ref'[r] # 0
            /\ b.lastCheck = StartTime(r) - Span - 1
               => /\ pc'[r] \in {"p_cont", "g_get"}
                  /\ ref'[r] = 0]_vars

\* a request holds a body it accepted at exactly the threshold; the file still
\* shows the lastCheck it was accepted with
C6_AcceptedAtBoundary ==
    \E r \in Reqs :
      /\ storeMethod = "files" /\ pc[r] = "p_valid"
      /\ Parses(bodies[id[r]])
      /\ Parse(bodies[id[r]]).lastCheck = now[r] - Span
      /\ Body(r).lastCheck = now[r]

\* C7: when start() is given a verifying token whose identifier has a stored,
\* well-formed, unexpired body with the request's userAgent and hostname, the
\* session keeps that identifier, its data is the stored data, its lastCheck
\* is the time of this start(), and the body so refreshed is what the backend
\* stores under the identifier.
C7_ValidSessionRetained ==
    [][\A r \in Reqs :
         LET b == StoredBody(Examined(r)) IN
         /\ ( /\ Examines(r)
              /\ enc[r] = Sign(Examined(r), secretKey)
              /\ b.lastCheck >= StartTime(r) - Span
              /\ b.userAgent = prm[r].userAgent /\ b.hostname = prm[r].hostname )
            => /\ id'[r] = Examined(r)
               /\ Body(r)' = [b EXCEPT !.lastCheck = StartTime(r)]
         /\ ( /\ cls[r] = "PSession"
              /\ enc[r] = Sign(id[r], secretKey)
              /\ \/ pc[r] = "p_valid" /\ pc'[r] = "ready"
                 \/ pc[r] = "c_save" /\ pc'[r] = "c_saved" /\ sid[r] = id[r] )
            => /\ id'[r] = id[r]
               /\ Body(r)' = Body(r)
               /\ (StoredBody(id[r]) = Body(r))']_vars

\* a request has loaded, under the identifier of its token, a body that carries
\* data and has given it the time of its start()
C7_RetainedWithData ==
    \E r \in Reqs : \E k \in Keys, v \in Vals :
      /\ cls[r] = "PSession" /\ pc[r] = "p_valid"
      /\ enc[r] = Sign(id[r], secretKey)
      /\ Get(r, k) = v
      /\ Body(r).lastCheck = now[r] /\ now[r] > 0

\* C8: a start() given a UUID-shaped identifier that has no body in the backend
\* does not keep that client-supplied identifier (stated for Session.start, the
\* start() of the class the dispatcher builds from the hs cookie).
C8_NoAdoptionOfBodylessId ==
    [][\A r \in Reqs :
         ( /\ cls[r] = "Session" /\ pc[r] = "new" /\ pc'[r] = "ready"
           /\ IsUuid(id[r]) /\ ~Stored(id[r]) )
         => id'[r] # id[r]]_vars

\* C9: start() does not reject when the custom store's get rejects, nor when the
\* cleanup delete issued after it rejects; and an unparsable file ends in a
\* fresh session whose body is stored, the corrupt file gone.
C9_BackendFailuresRecovered ==
    [][\A r \in Reqs :
         /\ pc[r] \in {"c_get", "c_destroy"} => pc'[r] # "rejected"
         /\ ( /\ cls[r] = "PSession" /\ storeMethod = "files"
              /\ pc[r] \in {"new", "p_top", "p_cont"}
              /\ pc[r] = "new" => TokenAccepted(enc[r])
              /\ <<pc[r], id[r]>>' # <<pc[r], id[r]>>
              /\ Stored(Examined(r)) /\ ~Parses(bodies[Examined(r)]) )
            => /\ pc'[r] = "ready"
               /\ Body(r)'.data = EmptyData
               /\ (StoredBody(id[r]) = Body(r))']_vars

\* C10: a sweep deletes every entry whose lastCheck is older than the time of
\* the sweep minus minutesExpiration and every file that does not parse, and
\* leaves every other entry in the store with its content unchanged.
C10_SweepEffect ==
    [][ClearOldSessions
       => \A i \in IDs :
            Stored(i)
            => IF storeMethod = "files" /\ ~Parses(bodies[i])
               THEN ~Stored(i)'
               ELSE IF StoredBody(i).lastCheck < clock' - Span
               THEN ~Stored(i)'
               ELSE /\ Stored(i)'
                    /\ bodies'[i] = bodies[i]
                    /\ sessions'[i] = sessions[i]
                    /\ StoredBody(i)' = StoredBody(i)]_vars

\* a sweep has run, and an entry whose lastCheck is exactly its threshold is
\* in the store
C10_KeptAtThreshold ==
    /\ lastSweep # <<>>
    /\ \E i \in IDs :
         /\ Stored(i)
         /\ StoredBody(i) # NoBody
         /\ StoredBody(i).lastCheck = lastSweep[1]

(* -------------------------- claims, detectRoute ------------------------ *)
\* detectRoute calls in this step a hook or the handler of request r
Invokes(r) ==
    /\ dr'.r = r
    /\ dr'.pc \in {"requestReceived", "notFound", "beforeExecute", "toExecute"}
    /\ dr'.pc # dr.pc

\* detectRoute has its envelope
Answered == dr.pc \in {"respond", "returned"}

\* the hs cookies of the envelope
HsCookies == SelectSeq(dr.response.cookies, LAMBDA c : c.name = "hs")

\* the phase p has thrown
Threw(p) == \E k \in DOMAIN dr.thrown : dr.thrown[k][1] = p

\* C11: when detectRoute calls a hook or the handler of a request, start() of
\* the request's session has completed: the session has a body and a
\* UUID-shaped identifier.
C11_SessionStartedBeforeUse ==
    [][\A r \in Reqs :
         Invokes(r) => /\ pc'[r] = "ready"
                       /\ Body(r)' # NoBody
                       /\ IsUuid(id'[r])]_vars

\* C12: the cookie on the returned envelope has name hs, httpOnly true, the
\* configured sameSite, and as its value the signed token of the session, not
\* the raw identifier.
C12_CookieContract ==
    dr.pc = "returned"
    => \A k \in DOMAIN dr.response.cookies :
         LET c == dr.response.cookies[k] IN
         /\ c.name = "hs"
         /\ c.httpOnly
         /\ c.sameSite = config.sameSiteCookie
         /\ c.value = Sign(id[dr.r], secretKey)

\* C13: every envelope detectRoute returns, the protocol redirect apart,
\* carries exactly one hs cookie.
C13_OneCookieOnEveryEnvelope ==
    (dr.pc = "returned" /\ ~dr.response.redirect) => Len(HsCookies) = 1

\* the member detectRoute selected is of kind k
Selected(k) ==
    /\ dr.functionName # NoName
    /\ \E m \in dr.routeObject.members : m.name = dr.functionName /\ m.kind = k

C15_DetailFollowsFlag ==
    (Answered /\ dr.thrown # NoThrow)
    => LET e == dr.thrown[Len(dr.thrown)][2] IN
       dr.response.body.detail = IF config.showErrorsOnClient THEN e ELSE NoDetail

\* C16: detectRoute never rejects: no exception escapes it.
C16_AlwaysAnEnvelope == dr.pc # "escaped"

\* C17: when the route object was built and the IP of the request is denied by
\* its whiteList or blackList, the envelope has status 401 and neither
\* beforeExecute, the handler nor finally() was invoked, whatever the member
\* the path selects.
C17_DeniedIpGets401 ==
    (Answered /\ dr.routeObject # NoRoute /\ Forbidden(dr.routeObject, dr.ip))
    => /\ dr.response.status = 401
       /\ dr.calls.beforeExecute = 0
       /\ dr.calls.toExecute = 0
       /\ dr.calls.finally = 0
       /\ dr.calls.notFound = 0

\* C18: a selected member that is no async function is never invoked, nor is
\* beforeExecute, and the envelope has status 500.
C18_OnlyAsyncHandlersRun ==
    (Selected("sync") \/ Selected("value"))
    => /\ dr.calls.toExecute = 0
       /\ dr.calls.beforeExecute = 0
       /\ Answered => dr.response.status = 500

\* a plain function was selected and answered with 500
C18_SyncHandlerRefused ==
    /\ dr.pc = "returned"
    /\ Selected("sync")
    /\ dr.response.status = 500
    /\ dr.calls.toExecute = 0

(* ---------------------- claims, route resolution ----------------------- *)
\* the path p names a directory of the tree t
NamesDirectory(t, p) == Norm(p) \in t.dirs \cup {<<>>}
\* the path p names a leaf unit of the tree t
NamesLeaf(t, p) == ~ExistsSync(t, p) /\ Norm(p) \in t.js \cup t.ts

\* how many leading segments of parts name directories, one inside the other
Depth(t, parts) ==
    CHOOSE k \in 0..Len(parts) :
      /\ \A j \in 1..k : NamesDirectory(t, SubSeq(parts, 1, j))
      /\ k < Len(parts) => ~NamesDirectory(t, SubSeq(parts, 1, k + 1))

\* C19: the walk descends through the leading segments that name directories;
\* if the next segment (index when none is left) names a leaf unit, the walk
\* selects exactly that unit, the .js file before the .ts one, and leaves the
\* segments after it unconsumed; every unit it selects exists. With
\* routes/{admin/{users}, index} the path admin/users/7 selects admin/users
\* and leaves 7.
C19_WalkSelectsFirstLeaf ==
    dr.walk.kind \in {"leaf", "notFound"}
    => LET t == config.tree
           parts == dr.parts
           w == dr.walk
           k == Depth(t, parts)
           next == IF k < Len(parts) THEN parts[k + 1] ELSE "index"
           unit == SubSeq(parts, 1, k) \o <<next>>
       IN /\ NamesLeaf(t, unit)
             => /\ w.kind = "leaf"
                /\ w.arr = SubSeq(parts, 1, k)
                /\ w.part = next
                /\ w.ext = IF Norm(unit) \in t.js THEN ".js" ELSE ".ts"
                /\ w.i = k + 1
          /\ w.kind = "leaf"
             => /\ w.ext = ".js" => Norm(w.arr \o <<w.part>>) \in t.js
                /\ w.ext = ".ts" => Norm(w.arr \o <<w.part>>) \in t.ts \ t.js
                /\ w.ext \in {".js", ".ts"}
          /\ (t = Tree1 /\ parts = <<"admin", "users", "7">>)
             => /\ w.kind = "leaf" /\ w.arr = <<"admin">> /\ w.i = 2
                /\ w.part = "users" /\ w.ext = ".js"
                /\ PartAt(parts, w.i) = "7"

\* admin/users/7 was walked in routes/{admin/{users}, index}
C19_AdminUsersSelected ==
    /\ config.tree = Tree1
    /\ dr.parts = <<"admin", "users", "7">>
    /\ dr.walk.kind = "leaf"
    /\ dr.walk.part = "users"

\* the route object has the callable member n
Callable(n) ==
    \E m \in dr.routeObject.members : m.name = n /\ m.kind \in {"async", "sync"}

\* C20: with part the segment after the unit, the function is <method>$part if
\* callable, else $part if callable (both consume part), else $index if
\* callable (part stays unconsumed), else the route is not found; the
\* parameters are the unconsumed segments, percent-decoded and trimmed, so
\* with $index part is the first parameter.
C20_FunctionNameOrder ==
    dr.routeObject # NoRoute
    => LET part == PartAt(dr.parts, dr.walk.i)
           left == IF dr.i < Len(dr.parts) THEN Len(dr.parts) - dr.i ELSE 0
       IN /\ IF Callable(Member(dr.method, part))
             THEN dr.functionName = Member(dr.method, part) /\ dr.i = dr.walk.i + 1
             ELSE IF Callable(Member("", part))
             THEN dr.functionName = Member("", part) /\ dr.i = dr.walk.i + 1
             ELSE IF Callable(IndexMember)
             THEN dr.functionName = IndexMember /\ dr.i = dr.walk.i
             ELSE dr.functionName = NoName /\ dr.calls.notFound = 1
          /\ (dr.functionName # NoName /\ dr.pc # "escaped")
             => /\ Len(dr.parameters) = left
                /\ \A k \in 1..left :
                     dr.parameters[k] = Trim(DecodeURIComponent(dr.parts[dr.i + k]))
                /\ (dr.i = dr.walk.i /\ part # Undefined)
                   => dr.parameters[1] = Trim(DecodeURIComponent(part))

\* $index was selected and the segment %207 became the parameter 7
C20_IndexTakesPartAsParameter ==
    /\ dr.functionName = IndexMember
    /\ dr.i = dr.walk.i
    /\ PartAt(dr.parts, dr.walk.i) = "%207"
    /\ dr.parameters # <<>>
    /\ dr.parameters[1] = "7"

(* --------------------------- claims, the walk -------------------------- *)
\* the index retry happened twice at one depth
RetriedTwice(w) ==
    \E j, k \in DOMAIN w.retries : j # k /\ w.retries[j] = w.retries[k]

\* C26: the walk loop ends for every path and every tree; it substitutes index
\* at most once per depth; and when it ends at a unit the cursor i is not
\* negative and the segments the walk pushed are exactly those before i.
C26_WalkTerminates ==
    /\ <>(dr.walk.kind # "walking")
    /\ [](/\ ~RetriedTwice(dr.walk)
          /\ dr.walk.kind = "leaf"
             => /\ dr.walk.i >= 0
                /\ \A k \in 0..(Len(dr.parts) - 1) :
                     k \in dr.walk.taken <=> k < dr.walk.i)

\* a unit was reached after index was substituted at three depths
C26_RetriedAtThreeDepths ==
    /\ dr.walk.kind = "leaf"
    /\ Len(dr.walk.retries) = 3
    /\ dr.walk.i = 0
    /\ dr.parts # <<>>

\* C27: when a pass of the walk finds that its segment names an existing entry
\* that is no directory, the walk ends there with NotFound: the entry is not
\* pushed, nothing is probed after it and index is not substituted after it.
C27_PlainEntryStopsWalk ==
    \A k \in DOMAIN dr.walk.probes :
      Norm(dr.walk.probes[k]) \in config.tree.plain
      => /\ dr.walk.kind = "notFound"
         /\ k = Len(dr.walk.probes)
         /\ dr.walk.arr # dr.walk.probes[k]

(* ---------------------- claims, the constructor ------------------------ *)
\* C23: when the configuration names no listener, or a defaultRoute that
\* starts with '/' or '\', or a files store without a path, or a negative
\* minutesExpiration, or a public directory with an empty path or a urlPath
\* that starts with '/', the constructor throws, and it has created neither
\* the application, nor a middleware, nor a listener.
C23_MalformedConfigThrows ==
    LET p == config
        malformed ==
            \/ ~p.http /\ ~p.https
            \/ p.defaultRoute.s # <<>> /\ p.defaultRoute.s[1] \in {"/", "\\"}
            \/ p.storeMethod = "files" /\ ~p.path.def
            \/ p.minutesExpiration < 0
            \/ p.public.on /\ p.public.path.s = <<>>
            \/ p.public.on /\ p.public.urlPath.s # <<>> /\ p.public.urlPath.s[1] = "/"
    IN (server.state # "new" /\ malformed)
       => /\ server.state = "thrown"
          /\ ~server.app /\ ~server.middleware
          /\ server.servers = {} /\ server.listening = {}

\* a configuration whose only fault is a defaultRoute that starts with '\'
\* has been refused by the constructor
C23_BackslashRouteRefused ==
    /\ server.state = "thrown"
    /\ server.thrown = "Error"
    /\ config = [TestParams EXCEPT !.logs = Given(<<"l">>),
                                   !.defaultRoute = Given(<<"\\", "h">>)]

\* C24: given the configuration of the test scripts (an http listener,
\* paths.routes and paths.uploads, no paths.logs, a files store with a path,
\* minutesExpiration 15), the constructor does not throw, and start() makes
\* the server listen.
C24_TestConfigConstructs ==
    (config = TestParams /\ server.state # "new")
    => server.state \in {"constructed", "started"} /\ server.thrown = "none"

(* ---------------------- claims, the request path ----------------------- *)
\* detectRoute has left the walk, or returned the public file
PathResolved == dr.pc \notin {"idle", "rewrite", "resolve"}

\* what the resolution of the path raw leads to under the configuration cfg
Resolution(cfg, raw) ==
    LET pathUrl == PathUrl(cfg, raw)
        file == PublicFileExists(cfg, raw, pathUrl)
        w == RouteWalk(cfg.tree, PathParts(pathUrl))
    IN [file |-> file, parts |-> PathParts(pathUrl),
        walk |-> IF file \/ w.kind = "throws" THEN NoWalk ELSE w,
        escaped |-> ~file /\ w.kind = "throws"]

\* what the resolution of the request has led to
Outcome ==
    [file |-> dr.publicFile, parts |-> dr.parts, walk |-> dr.walk,
     escaped |-> dr.pc = "escaped"]

\* the path of a request for the path rel below the base path
WithBase(cfg, rel) == IF cfg.baseUrl = Undefined THEN rel ELSE <<cfg.baseUrl>> \o rel

\* C21: with a default route d configured, a request whose path is empty is
\* resolved as a request whose path is d is: the same public file or the same
\* segments, unit and cursor, whatever the rules and the public directory.
C21_DefaultRouteEquivalence ==
    (/\ PathResolved
     /\ config.defaultRoute # <<>>
     /\ StripBase(config.baseUrl, dr.pathUrl) = Empty)
    => Outcome = Resolution(config, WithBase(config, config.defaultRoute))

\* the path without its '.' and '..' segments
WithoutDots(path) == IF PathParts(path) = <<>> THEN Empty ELSE PathParts(path)

\* C22: no '.' or '..' segment reaches the walk; every location the walk
\* probes lies below the routes root; and a path with '..' segments is walked
\* as the same path without them is.
C22_TraversalHardening ==
    PathResolved
    => /\ \A k \in DOMAIN dr.parts : dr.parts[k] \notin {".", ".."}
       /\ \A k \in DOMAIN dr.walk.probes :
            \A j \in DOMAIN Join(<<>>, dr.walk.probes[k]) :
              Join(<<>>, dr.walk.probes[k])[j] # ".."
       /\ (\E k \in DOMAIN dr.pathUrl : dr.pathUrl[k] = "..")
          => LET other == Resolution(config, WithoutDots(dr.pathUrl))
             IN /\ dr.parts = other.parts
                /\ (~dr.publicFile /\ ~other.file)
                   => dr.walk = other.walk /\ (dr.pc = "escaped") = other.escaped

\* the first rule of config.remap whose pattern occurs in the path, 0 if none
FirstMatch(rules, path) ==
    IF \E k \in DOMAIN rules : \E j \in DOMAIN path : path[j] = rules[k].from
    THEN CHOOSE k \in DOMAIN rules :
           /\ \E j \in DOMAIN path : path[j] = rules[k].from
           /\ \A h \in 1..(k - 1) : \A j \in DOMAIN path : path[j] # rules[h].from
    ELSE 0

\* C28: the base path is stripped first; of the rules, the first whose pattern
\* matches the stripped path is applied to it once and no other rule is; the
\* path so rewritten (the default route if it is empty) is the one split into
\* the segments of the walk.
C28_FirstMatchingRuleOnly ==
    PathResolved
    => LET stripped == StripBase(config.baseUrl, dr.pathUrl)
           k == FirstMatch(config.remap, stripped)
           rewritten == IF k = 0 THEN stripped
                        ELSE Replace(stripped, config.remap[k].from, config.remap[k].to)
           used == IF rewritten # Empty THEN rewritten
                   ELSE IF config.defaultRoute = <<>> THEN Empty
                   ELSE config.defaultRoute
       IN dr.parts = PathParts(used)

(* ---------------------- claims, the short circuits --------------------- *)
\* C29: when the request came over http and config.instances.https is set,
\* detectRoute returns a 302 redirect whose location is the https URL of the
\* request's host, the port of the secure listener, the request's path and
\* its query; and no hook was called, no public file looked up, no route
\* resolved, no handler and no finally called.
C29_ProtocolRedirect ==
    (dr.r # 0 /\ dr.pc # "escaped" /\ dr.protocol = "http" /\ config.https.on)
    => /\ dr.pc = "returned"
       /\ dr.response.status = 302 /\ dr.response.redirect
       /\ dr.response.location =
            [protocol |-> "https", hostname |-> prm[dr.r].hostname,
             port |-> config.https.port, path |-> dr.pathUrl,
             query |-> dr.queryUrl]
       /\ dr.calls = NoCalls /\ dr.hook = NoHook
       /\ ~dr.publicFile /\ dr.walk = NoWalk /\ dr.routeObject = NoRoute
       /\ dr.thrown = NoThrow

\* C30: once the requestReceived hook or the beforeExecute hook has returned
\* an envelope, neither the handler nor the finally hook is called and the
\* response of the request is that envelope (detectRoute adds its cookie to
\* it at most); after requestReceived the route is not resolved either. Once
\* the hook has returned nothing, the next phase follows: the resolution
\* after requestReceived, the handler after beforeExecute.
C30_HookShortCircuit ==
    /\ [](dr.hook.out = "envelope"
          => /\ dr.pc \in {"respond", "returned"}
             /\ dr.calls.toExecute = 0 /\ dr.calls.finally = 0
             /\ [dr.response EXCEPT !.cookies = <<>>] = HookEnvelope
             /\ dr.hook.phase = "requestReceived"
                => /\ dr.walk = NoWalk /\ dr.routeObject = NoRoute
                   /\ dr.calls.notFound = 0 /\ dr.calls.beforeExecute = 0)
    /\ [][(dr'.hook # dr.hook /\ dr'.hook.out = "void")
          => /\ dr'.hook.phase = "requestReceived" => dr'.pc = "resolve"
             /\ dr'.hook.phase = "beforeExecute"
                => dr'.pc = "toExecute" /\ dr'.calls.toExecute = 1]_vars

\* the beforeExecute hook returned an envelope and the request was answered
C30_BeforeExecuteAnswered ==
    /\ dr.pc = "returned"
    /\ dr.hook = [phase |-> "beforeExecute", out |-> "envelope"]
    /\ dr.calls.beforeExecute = 1

(* ------------------- claims, the loop of PSession.start --------------- *)
\* C25: the loop of start() runs at most twice: once the body it loaded was
\* rejected and the identifier generated anew, the next pass finds no body
\* under the new identifier, so no pass that follows a rejected body rejects
\* a body in its turn.
C25_LoopRunsAtMostTwice ==
    [][\A r \in Reqs :
         /\ (pc[r] = "p_cont" /\ pc'[r] = "p_cont") => id'[r] = id[r]
         /\ (pc[r] = "c_get" /\ ctx[r] = "retry") => pc'[r] # "g_get"]_vars

(* ------------------------- claims, not found -------------------------- *)
\* the resolution of the route has failed: the walk found no unit, or the
\* unit has none of the three candidates
ResolutionFailed ==
    \/ dr.walk.kind = "notFound"
    \/ dr.pc \notin {"idle", "requestReceived", "resolve", "load", "escaped"}
       /\ dr.walk.kind = "leaf" /\ dr.functionName = NoName
       /\ \A k \in DOMAIN dr.thrown : dr.thrown[k][1] # "import"

\* C31: when the resolution of the route fails, the notFound hook is called
\* once; the response is the envelope of the hook if it returned one, the
\* 404 envelope if it returned nothing, a 500 envelope if it threw; and the
\* handler is not called.
C31_NotFoundHandling ==
    /\ dr.calls.notFound <= 1
    /\ (dr.calls.notFound = 1) = ResolutionFailed
    /\ ResolutionFailed
       => /\ dr.calls.toExecute = 0 /\ dr.calls.beforeExecute = 0
          /\ dr.pc \in {"notFound", "respond", "returned"}
          /\ dr.pc = "notFound" => dr.hook.phase # "notFound"
          /\ dr.pc # "notFound"
             => /\ dr.hook.phase = "notFound"
                /\ LET e == [dr.response EXCEPT !.cookies = <<>>] IN
                   /\ dr.hook.out = "envelope" => e = HookEnvelope
                   /\ dr.hook.out = "void"
                      => e = Envelope(404, "No se encontro la ruta", NoDetail)
                   /\ dr.hook.out = "throws" => e.status = 500

\* the unit has none of the candidates, the hook returned an envelope and the
\* request was answered with it
C31_HookAnswersMissingFunction ==
    /\ dr.pc = "returned"
    /\ dr.walk.kind = "leaf" /\ dr.functionName = NoName
    /\ dr.hook = [phase |-> "notFound", out |-> "envelope"]
    /\ dr.response.status = HookEnvelope.status

\* C34: the notFound hook is told 'script' when the walk found no unit and
\* 'function' when the unit has none of the three candidates.
C34_HookToldWhatIsMissing ==
    ResolutionFailed
    => /\ dr.notFound.type = IF dr.walk.kind = "notFound" THEN "script" ELSE "function"
       /\ dr.notFound.told = dr.notFound.type

(* ----------------------- claims, the public files --------------------- *)
\* C32: a request is answered with a file of the public directory only if
\* its path begins with config.public.urlPath and the file exists at the
\* location the path is mapped to; a request whose path does not begin with
\* the prefix goes to the resolution of the route.
C32_PublicFileOnlyUnderPrefix ==
    (PathResolved /\ config.public.on /\ config.public.urlPath # Undefined)
    => /\ dr.publicFile
          => /\ dr.pathUrl[1] = config.public.urlPath
             /\ Join(<<>>, Tail(dr.pathUrl)) \in config.public.files
       /\ dr.pathUrl[1] # config.public.urlPath
          => ~dr.publicFile /\ (dr.walk # NoWalk \/ dr.pc = "escaped")

\* C35: the location at which the public file is looked up lies in
\* config.public.path, whatever the path of the request; no file outside the
\* directory is served.
C35_PublicFileWithinDirectory ==
    (PathResolved /\ config.public.on)
    => LET location == PublicFilePath(config, dr.pathUrl, PathUrl(config, dr.pathUrl))
       IN /\ \A k \in DOMAIN location : location[k] # ".."
          /\ dr.publicFile => location \in {f \in config.public.files : f[1] # ".."}

(* ------------------------ claims, get and set ------------------------- *)
\* what set(k, v) does to a session that holds a body: get(k) returns v
\* afterwards, and nothing but data[k] has changed
SetsOnly(r, k, v) ==
    /\ Get(r, k)' = v
    /\ Body(r)' = [Body(r) EXCEPT !.data[k] = v]
    /\ \A x \in DataKeys \ {k} : Get(r, x)' = Get(r, x)
    /\ id'[r] = id[r] /\ ref'[r] = ref[r]

\* what the calls of get and set do to a session that holds no body: set
\* changes nothing and get returns null
NoOp(r) ==
    /\ obj' = obj /\ id'[r] = id[r] /\ ref'[r] = ref[r]
    /\ \A k \in DataKeys : Get(r, k) = Null /\ Get(r, k)' = Null

\* C33 as stated: on a session whose start() has completed, set(k, v) makes
\* get(k) return v and changes data[k] only; on a session whose start() has
\* not completed, set changes nothing and get returns null.
C33_SetGetByCompletion ==
    [][\A r \in {q \in Reqs : pc[q] # "idle"} :
         IF pc[r] = "ready"
         THEN \E k \in DataKeys, v \in DataVals : SetsOnly(r, k, v)
         ELSE NoOp(r)]_vars

\* C33, amended: on a session that holds a body, set(k, v) makes get(k) return
\* v and changes data[k] only, leaving the identifier, ip, hostname,
\* userAgent, lastCheck and the other keys as they were; on a session that
\* holds none (start() not called, or not yet at the point where it assigns
\* the body), set changes nothing and get returns null.  A body that start()
\* has just created returns null for every key.
C33_SetGetByBody ==
    /\ [][\A r \in {q \in Reqs : pc[q] # "idle"} :
            IF ref[r] # 0
            THEN \E k \in DataKeys, v \in DataVals : SetsOnly(r, k, v)
            ELSE NoOp(r)]_vars
    /\ [](\A r \in Reqs : \A k \in DataKeys :
            /\ ref[r] = 0 => Get(r, k) = Null
            /\ (ref[r] # 0 /\ Body(r).data[k] = Null) => Get(r, k) = Null)

\* a started session holds the value w under k and still the value v under k2
C33_SetBesideOtherKey ==
    /\ pc[1] = "ready"
    /\ Get(1, "k") = "w" /\ Get(1, "k2") = "v"
    /\ Body(1).userAgent = "ua1"

(* --------------------- claims, the rejected body ---------------------- *)
\* start() of request r has rejected the body it loaded and has not ended
AfterRejection(r) ==
    /\ cls[r] = "PSession"
    /\ \/ pc[r] = "p_cont"
       \/ storeMethod = "custom" /\ ctx[r] \in {"check", "retry"}

\* C36: once start() has rejected the body stored under the presented
\* identifier, no step of that start() deletes or changes the entry the
\* backend holds under that identifier: what it writes, it writes under
\* another one.
C36_RejectedEntryUntouched ==
    [][\A r \in Reqs :
         LET i == enc[r].payload IN
         (/\ AfterRejection(r) /\ TokenAccepted(enc[r]) /\ Stored(i)
          /\ pc'[r] # pc[r])
         => /\ bodies'[i] = bodies[i]
            /\ sessions'[i] = sessions[i]
            /\ sessions[i] # 0 => obj'[sessions[i]] = obj[sessions[i]]]_vars

====
